---- MODULE Spec2Model ----
(***************************************************************************)
(* A model of the incremental build engine of incontext: the ChangeTracker *)
(* cache (tracker.py), the Phase dispatcher and the render-cache pass      *)
(* (plugins/commands/build.py), and the tracked relationship queries of    *)
(* the website service (service/website.py).                               *)
(***************************************************************************)
EXTENDS Integers, Sequences, FiniteSets, TLC

\* ------------------------------------------------------------------------
\* Bounds
\* ------------------------------------------------------------------------
MaxAdds == 2
MaxRuns == 2
MaxEdits == 3
MaxCalls == 3
MaxAlts == 2

\* Fingerprints are only compared for equality: two values give every case.
Mtimes == {1, 2}
Keys == {"a", "b"}

\* ------------------------------------------------------------------------
\* Python dictionaries: insertion-ordered sequences of entries with a key
\* ------------------------------------------------------------------------
DictKeys(d) == {d[i].key : i \in DOMAIN d}

Has(d, k) == \E i \in DOMAIN d : d[i].key = k

Get(d, k) == d[CHOOSE i \in DOMAIN d : d[i].key = k]

Put(d, e) ==
  IF Has(d, e.key)
  THEN [i \in DOMAIN d |-> IF d[i].key = e.key THEN e ELSE d[i]]
  ELSE Append(d, e)

Del(d, k) == SelectSeq(d, LAMBDA e : e.key # k)

\* ------------------------------------------------------------------------
\* info payloads returned by build actions
\* ------------------------------------------------------------------------
\* hasMtime: "mtime" in info; json: json.dump can serialize the payload.
Info(tag, hasMtime, mtime, json, files, urls, queries) ==
  [tag |-> tag, hasMtime |-> hasMtime, mtime |-> mtime, json |-> json,
   files |-> files, urls |-> urls, queries |-> queries]

PlainInfo(tag) == Info(tag, FALSE, 0, TRUE, <<>>, <<>>, <<>>)

\* The payloads a caller-supplied create callback returns in the tracker
\* specification: plain ones, one carrying its own "mtime", and one that
\* json cannot serialize.
InfoSet ==
  {PlainInfo(t) : t \in {1, 2}}
    \cup {Info(1, TRUE, 2, TRUE, <<>>, <<>>, <<>>)}
    \cup {Info(1, FALSE, 0, FALSE, <<>>, <<>>, <<>>)}

\* What one call of create does: raise, or return an info payload.
Outcomes == {[raised |-> TRUE, info |-> PlainInfo(1)]}
              \cup {[raised |-> FALSE, info |-> i] : i \in InfoSet}

\* ------------------------------------------------------------------------
\* The cache file
\* ------------------------------------------------------------------------
NoFile == [kind |-> "missing", data |-> <<>>]
JsonFile(d) == [kind |-> "json", data |-> d]
\* What open(path, "w") followed by a json.dump that raised leaves behind.
PartialFile == [kind |-> "partial", data |-> <<>>]

Serializable(d) == \A i \in DOMAIN d : d[i].info.json

VARIABLES
  cacheFile,   \* the persisted cache file of the tracker
  tracker,     \* the ChangeTracker object: _cache, _actions, _deletions
  pc,          \* "idle", "open", "done", "failed", "crashed"
  store,       \* FactStore rows, a dictionary keyed by url
  outputs,     \* the set of generated files
  prior,       \* history: the map loaded by the constructor
  adds,        \* history: the add calls of this pass
  cleaned,     \* history: cleanup invocations of this commit
  built,       \* history: build actions run by this commit
  order,       \* history: the order of the steps of this commit
  lastGood,    \* history: the file written by the last successful commit
  runs,
  sources,     \* the content directory: source path -> file attributes
  tasks,       \* the handlers of site.yaml: a list of (when, then) rules
  edits,       \* number of changes made to the site so far
  usedTasks,   \* history: the rules the last process() worked with
  templates,   \* the templates directory: file name -> mtime
  renderFile,  \* the persisted cache file of the render tracker
  renderPrior, \* history: the render cache the last build loaded
  rendered,    \* history: the renders run by the last build
  prevStore,   \* history: the FactStore the last build started from
  builtSources,   \* history: the content directory the last build saw
  builtTemplates, \* history: the templates directory the last build saw
  prevTemplates,  \* history: the one the build before it saw
  unchanged,   \* history: the last build saw what the build before it saw
  table,       \* the documents table as SQLite holds it: a set of rows
  lastAdd,     \* history: for each url, what the last add or delete did
  asked,       \* the last query put to the store and to the site, if any
  answer,      \* what DocumentStore.getall and Site.posts returned for it
  siteCache,   \* history: Site._cache of the last build, <<>> for None
  watcher,     \* the Builder object of watch mode: its flags and its lock
  threads,     \* where the threads of watch mode are
  applied,     \* the last call of a schema transform, <<>> before the first
  returned     \* what that call returned or raised

trackerVars == <<cacheFile, tracker, pc, store, outputs, prior, adds,
                 cleaned, built, order, lastGood, runs>>

phaseVars == <<sources, tasks, edits, usedTasks>>

renderVars == <<templates, renderFile, renderPrior, rendered, prevStore,
                builtSources, builtTemplates, prevTemplates, unchanged>>

siteVars == <<phaseVars, renderVars>>

queryVars == <<asked, answer>>

watchVars == <<watcher, threads>>

schemaVars == <<applied, returned>>

dbVars == <<table, lastAdd, queryVars, siteCache, watchVars, schemaVars>>

vars == <<trackerVars, siteVars, dbVars>>

\* ------------------------------------------------------------------------
\* The environment a build or cleanup action works on
\* ------------------------------------------------------------------------
\* store: the FactStore; outputs: the generated files; tree: the content
\* directory the handlers read; memo: the urls of the documents of the Site
\* cache that hold a memoized thumbnail (none before the first render).
Env(st, outs, tree) ==
  [store |-> st, outputs |-> outs, tree |-> tree, memo |-> {}]

Range(s) == {s[i] : i \in DOMAIN s}

\* DocumentStore.delete: DELETE FROM documents WHERE url = ?
delete(st, url) == [u \in DOMAIN st \ {url} |-> st[u]]

RECURSIVE DeleteUrls(_, _, _)
DeleteUrls(st, urls, i) ==
  IF i > Len(urls) THEN st ELSE DeleteUrls(delete(st, urls[i]), urls, i + 1)

\* cleanup that leaves the FactStore rows alone.
cleanup_KeepUrls(info, env) ==
  Env(env.store, env.outputs \ Range(info.files), env.tree)

\* build.py cleanup(root, document_store): remove the files and the FactStore
\* rows the info lists.
cleanup(info, env) ==
  Env(DeleteUrls(env.store, info.urls, 1), env.outputs \ Range(info.files),
      env.tree)

\* The create callback of the tracker specification: its result is chosen
\* by the caller of the model (oracle).
GenericCreate == [fn |-> "generic"]

\* ------------------------------------------------------------------------
\* Source files and the documents derived from them (converters.py)
\* ------------------------------------------------------------------------
\* A source path relative to the content directory: dir/name.ext
Path(dir, name, ext) == [dir |-> dir, name |-> name, ext |-> ext]

\* A source file: its mtime and what its frontmatter says (template, date).
File(mtime, tmpl, date) == [mtime |-> mtime, tmpl |-> tmpl, date |-> date]

\* A document without a date.
NoDate == 0

\* str.lower() and re.IGNORECASE on the names of the model.
Lower(x) == IF x = "TXT" THEN "txt" ELSE x

\* A url is the sequence of its segments: <<"p", "a">> is /p/a/.
is_index(path) == Lower(path.name) = "index"

\* parse_path, data["url"]: the directory for an index file, else the
\* directory joined with the lower-cased basename.
UrlOf(path) ==
  IF is_index(path) THEN path.dir ELSE Append(path.dir, Lower(path.name))

\* converters.parent of the path without its trailing index: the containing
\* directory; normpath("") is "." and gives the parent "/./".
ParentOf(path) ==
  LET clean == IF is_index(path) THEN path.dir ELSE Append(path.dir, path.name)
      d == SubSeq(clean, 1, Len(clean) - 1)
  IN  IF d = <<>> THEN <<".">> ELSE d

\* title_and_scale_from_path: the basename, or for an index file the name
\* of its directory.
TitleOf(path) ==
  IF is_index(path)
  THEN IF path.dir = <<>> THEN "" ELSE path.dir[Len(path.dir)]
  ELSE path.name

\* frontmatter_document and the row DocumentStore.add writes for it.
Document(path, file) ==
  [url |-> UrlOf(path), parent |-> ParentOf(path), date |-> file.date,
   title |-> TitleOf(path), template |-> file.tmpl, mtime |-> file.mtime]

\* ------------------------------------------------------------------------
\* FactStore (service/store.py) and the snapshot of Site (website.py)
\* ------------------------------------------------------------------------
\* DocumentStore.add: INSERT OR REPLACE by url.
StoreAdd(st, doc) ==
  [u \in DOMAIN st \cup {doc.url} |-> IF u = doc.url THEN doc ELSE st[u]]

\* The titles of the model in ascending order.
TitleOrder == <<"", "a", "b", "p">>

TitleRank(t) == CHOOSE i \in DOMAIN TitleOrder : TitleOrder[i] = t

\* ORDER BY date ASC|DESC, title ASC; SQLite puts NULL dates first when
\* ascending and last when descending.
RowBefore(x, y, asc) ==
  \/ IF asc THEN x.date < y.date ELSE x.date > y.date
  \/ x.date = y.date /\ TitleRank(x.title) < TitleRank(y.title)

RECURSIVE OrderBy(_, _)
OrderBy(rows, asc) ==
  IF rows = {} THEN <<>>
  ELSE LET first == CHOOSE x \in rows :
                      \A y \in rows \ {x} : ~RowBefore(y, x, asc)
       IN  <<first>> \o OrderBy(rows \ {first}, asc)

\* DocumentStore.getall without filters.
getall(st, asc) == OrderBy({st[u] : u \in DOMAIN st}, asc)

\* sorted(posts, key=sort_date, reverse=not ascending): stable, so posts of
\* equal date keep their order in both directions.
RECURSIVE Sorted(_, _)
Sorted(posts, ascending) ==
  IF Len(posts) = 0 THEN <<>>
  ELSE LET i == CHOOSE k \in DOMAIN posts :
                  /\ \A j \in DOMAIN posts :
                       IF ascending THEN posts[k].date <= posts[j].date
                                    ELSE posts[k].date >= posts[j].date
                  /\ \A j \in 1..(k - 1) : posts[j].date # posts[k].date
       IN  <<posts[i]>> \o
           Sorted(SubSeq(posts, 1, i - 1) \o SubSeq(posts, i + 1, Len(posts)),
                  ascending)

\* sort_posts that sorts ascending and reverses the list for descending.
sort_posts_Reversed(posts, ascending) ==
  LET dated == Sorted(SelectSeq(posts, LAMBDA d : d.date # NoDate), TRUE)
  IN  (IF ascending THEN dated
       ELSE [i \in DOMAIN dated |-> dated[Len(dated) + 1 - i]])
        \o SelectSeq(posts, LAMBDA d : d.date = NoDate)

sort_posts(posts, ascending) ==
  Sorted(SelectSeq(posts, LAMBDA d : d.date # NoDate), ascending)
    \o SelectSeq(posts, LAMBDA d : d.date = NoDate)

\* Site.load_cache: _cache and _cache_by_parent hold the documents in the
\* order of getall(); Site.posts for no filter (AllPosts) or a parent.
AllPosts == <<"*">>

posts(snapshot, parent, ascending) ==
  LET cached == getall(snapshot, TRUE)
  IN  sort_posts(IF parent = AllPosts THEN cached
                 ELSE SelectSeq(cached, LAMBDA d : d.parent = parent),
                 ascending)

\* Site.post
post(snapshot, url) ==
  IF url \in DOMAIN snapshot THEN <<snapshot[url]>> ELSE <<>>

\* ------------------------------------------------------------------------
\* Tracked queries of DocumentWrapper (website.py)
\* ------------------------------------------------------------------------
\* utils.hash_items: md5 over the packed items, taken as injective.
hash_items(items) == [md5 |-> items]

Params(type, parent, url, sort) ==
  [type |-> type, parent |-> parent, url |-> url, sort |-> sort]

RECURSIVE Before(_, _, _)
\* the loops of "previous" and "next": the document listed just before
\* self in docs, from position i on.
Before(docs, self, i) ==
  IF i > Len(docs) THEN <<>>
  ELSE IF docs[i].url = self.url
       THEN IF i = 1 THEN <<>> ELSE <<docs[i - 1]>>
       ELSE Before(docs, self, i + 1)

RECURSIVE After(_, _, _)
After(docs, self, i) ==
  IF i > Len(docs) THEN <<>>
  ELSE IF docs[i].url = self.url
       THEN IF i = Len(docs) THEN <<>> ELSE <<docs[i + 1]>>
       ELSE After(docs, self, i + 1)

_run_query(snapshot, self, parameters) ==
  CASE parameters.type = "children" ->
         posts(snapshot, parameters.parent, parameters.sort = "ascending")
    [] parameters.type = "post" -> post(snapshot, parameters.url)
    [] parameters.type = "siblings" -> posts(snapshot, parameters.parent, FALSE)
    [] parameters.type = "previous" ->
         Before(posts(snapshot, parameters.parent, FALSE), self, 1)
    [] parameters.type = "next" ->
         After(posts(snapshot, parameters.parent, FALSE), self, 1)

Mtimes_of(documents) == [i \in DOMAIN documents |-> documents[i].mtime]

\* QueryTracker.add: queries[dumps(parameters)] = hash of the mtimes.
QueryTracker_add(queries, parameters, documents) ==
  Put(queries, [key |-> parameters, hash |-> hash_items(Mtimes_of(documents))])

\* _record_query by document self into the tracker it holds.
_record_query(queries, snapshot, self, parameters) ==
  QueryTracker_add(queries, parameters, _run_query(snapshot, self, parameters))

evaluate_queries(snapshot, self, queries) ==
  [i \in DOMAIN queries |->
     hash_items(Mtimes_of(_run_query(snapshot, self, queries[i].key)))]

children(self) == Params("children", self.url, <<>>, "ascending")
siblings(self) == Params("siblings", self.parent, <<>>, "")
previous(self) == Params("previous", self.parent, <<>>, "")

\* The templates of the model and the lookups each performs:
\*   plain      {{ page.title }}
\*   children   {% for child in page.children %}
\*   siblings   {% for sibling in page.siblings %}
\*   childprev  {% for child in page.children %}{{ child.previous }}
\*   thumbs     {% for sibling in page.siblings %}{{ sibling.thumbnail }}
Templates == {"plain", "children", "siblings", "childprev", "thumbs"}

\* child.previous for each child of a children query: _record_query has
\* given every child the tracker of the page.
RECURSIVE EachPrevious(_, _, _, _)
EachPrevious(queries, snapshot, docs, i) ==
  IF i > Len(docs) THEN queries
  ELSE EachPrevious(_record_query(queries, snapshot, docs[i], previous(docs[i])),
                    snapshot, docs, i + 1)

\* The end of DocumentWrapper.thumbnail: the value is kept on the document.
Memoized(w, self) == [w EXCEPT !.memo = @ \cup {self.url}]

\* DocumentWrapper.thumbnail of a document without image, thumbnail or
\* <img>: unless the value is memoized, the children are looked up, into
\* the tracker the document holds, and asked for their thumbnail (None for
\* the documents of the model). w is the tracker's queries and the memo.
RECURSIVE thumbnail(_, _, _)
RECURSIVE EachThumbnail(_, _, _, _)
thumbnail(w, snapshot, self) ==
  IF self.url \in w.memo THEN w
  ELSE Memoized(EachThumbnail(
                  [w EXCEPT !.queries =
                     _record_query(@, snapshot, self, children(self))],
                  snapshot, _run_query(snapshot, self, children(self)), 1),
                self)

EachThumbnail(w, snapshot, docs, i) ==
  IF i > Len(docs) THEN w
  ELSE EachThumbnail(thumbnail(w, snapshot, docs[i]), snapshot, docs, i + 1)

\* documents(path): page.query_tracker = QueryTracker(), then the template
\* of the page is rendered; memo is what earlier renders of the process
\* left on the documents of the Site cache.
Rendering(snapshot, page, memo) ==
  CASE page.template = "plain" -> [queries |-> <<>>, memo |-> memo]
    [] page.template = "children" ->
         [queries |-> _record_query(<<>>, snapshot, page, children(page)),
          memo |-> memo]
    [] page.template = "siblings" ->
         [queries |-> _record_query(<<>>, snapshot, page, siblings(page)),
          memo |-> memo]
    [] page.template = "childprev" ->
         [queries |->
            EachPrevious(_record_query(<<>>, snapshot, page, children(page)),
                         snapshot,
                         _run_query(snapshot, page, children(page)), 1),
          memo |-> memo]
    [] page.template = "thumbs" ->
         EachThumbnail(
           [queries |-> _record_query(<<>>, snapshot, page, siblings(page)),
            memo |-> memo],
           snapshot, _run_query(snapshot, page, siblings(page)), 1)

\* The queries of page.query_tracker after documents(path) rendered page
\* in a process that rendered no other page before.
RenderQueries(snapshot, page) == Rendering(snapshot, page, {}).queries

Hashes(queries) == [i \in DOMAIN queries |-> queries[i].hash]

\* A digest that leaves the hashes of the queries out.
Digest_NoQueries(template_hash, document, hashes) ==
  hash_items(<<template_hash, hash_items(<<document.mtime>>)>>)

\* The fingerprint of a page: build.py lines 171 and 178.
Digest(template_hash, document, hashes) ==
  hash_items(<<template_hash, hash_items(<<document.mtime>>)>> \o hashes)

\* Website.render, destination: the rendered page of a url.
PageOf(url) == Path(url, "index", "html")

\* The dictionary render returns: the file, the queries of the tracker and
\* the digest over their hashes.
RenderInfo(template_hash, page, destination, queries) ==
  Info(1, TRUE, Digest(template_hash, page, Hashes(queries)),
       TRUE, <<destination>>, <<>>, queries)

\* A render that deletes the row of its page from the FactStore.
Rendered_DropsDocument(create, url, env, w) ==
  [raised |-> FALSE,
   env |-> [env EXCEPT !.outputs = @ \cup {PageOf(url)}, !.memo = w.memo,
                       !.store = delete(@, url)],
   info |-> RenderInfo(create.template_hash, env.store[url], PageOf(url),
                       w.queries)]

\* Website.render wrapped by render_outer (build.py): the page is written
\* to <url>/index.html and the info carries the queries and the digest.
Rendered(create, url, env, w) ==
  [raised |-> FALSE,
   env |-> [env EXCEPT !.outputs = @ \cup {PageOf(url)}, !.memo = w.memo],
   info |-> RenderInfo(create.template_hash, env.store[url], PageOf(url),
                       w.queries)]

render(create, url, env) ==
  Rendered(create, url, env, Rendering(env.store, env.store[url], env.memo))

\* build.py import_markdown: the document of the file is put into the
\* FactStore (a file without a thumbnail writes no file).
import_markdown(path, env) ==
  LET document == Document(path, env.tree[path])
  IN  [raised |-> FALSE,
       env |-> Env(StoreAdd(env.store, document), env.outputs, env.tree),
       info |-> Info(1, FALSE, 0, TRUE, <<>>, <<document.url>>, <<>>)]

\* default_handlers.py ignore: nothing is written.
ignore(path, env) ==
  [raised |-> FALSE, env |-> env, info |-> PlainInfo(1)]

\* default_handlers.py copy_file: the file is copied to the same relative
\* path of the files directory.
copy_file(path, env) ==
  [raised |-> FALSE,
   env |-> Env(env.store, env.outputs \cup {path}, env.tree),
   info |-> Info(1, FALSE, 0, TRUE, <<path>>, <<>>, <<>>)]

\* The call create(path) of an enqueued action: a handler of the site, or
\* in the tracker specification a callback whose result the oracle gives.
\* A handler raises when the oracle says so.
RunCreate(create, path, env, oracle) ==
  IF oracle.raised \/ create.fn = "generic"
  THEN [raised |-> oracle.raised, info |-> oracle.info, env |-> env]
  ELSE CASE create.fn = "copy_file" -> copy_file(path, env)
         [] create.fn = "ignore" -> ignore(path, env)
         [] create.fn = "import_markdown" -> import_markdown(path, env)
         [] create.fn = "render" -> render(create, path, env)

\* ------------------------------------------------------------------------
\* ChangeTracker (tracker.py)
\* ------------------------------------------------------------------------
NoTracker == [cache |-> <<>>, actions |-> <<>>, deletions |-> <<>>]

\* __init__ for a file that json.load accepts, or no file.
ChangeTracker(file) ==
  LET loaded == IF file.kind = "json" THEN file.data ELSE <<>>
  IN  [cache |-> loaded, actions |-> <<>>, deletions |-> loaded]

\* add without "del self._deletions[path]".
add_NoMark(t, path, create, mtime) ==
  IF Has(t.deletions, path) /\ Get(t.cache, path).mtime = mtime
  THEN t
  ELSE [t EXCEPT !.actions =
          Append(@, [path |-> path, create |-> create, mtime |-> mtime])]

\* add that never skips: every path added is enqueued.
add_Always(t, path, create, mtime) ==
  [t EXCEPT !.actions =
     Append(@, [path |-> path, create |-> create, mtime |-> mtime])]

add(t, path, create, mtime) ==
  IF Has(t.deletions, path) /\ Get(t.cache, path).mtime = mtime
  THEN [t EXCEPT !.deletions = Del(@, path)]
  ELSE [t EXCEPT !.actions =
          Append(@, [path |-> path, create |-> create, mtime |-> mtime])]

\* The closure body that keeps the mtime passed to add().
action_AddMtime(a, info) ==
  [key |-> a.path, mtime |-> a.mtime, info |-> info]

\* The body of the closure add() enqueues.
action(a, info) ==
  [key |-> a.path,
   mtime |-> IF info.hasMtime THEN info.mtime ELSE a.mtime,
   info |-> info]

\* The state commit works on: the map, the environment, and what has been
\* done so far.
Begin(t, env) ==
  [cache |-> t.cache, env |-> env, cleaned |-> <<>>, built |-> <<>>,
   order |-> <<>>, raised |-> FALSE]

\* The first loop of commit without "del self._cache[path]".
RECURSIVE RunCleanups_KeepEntry(_, _, _)
RunCleanups_KeepEntry(dels, st, i) ==
  IF i > Len(dels) THEN st
  ELSE LET path == dels[i].key
           info == Get(st.cache, path).info
       IN  RunCleanups_KeepEntry(dels,
                       [st EXCEPT !.env = cleanup(info, @),
                                  !.cleaned = Append(@, [key |-> path, info |-> info]),
                                  !.order = Append(@, "cleanup")],
                       i + 1)

\* commit, first loop: one cleanup per key left in _deletions.
RECURSIVE RunCleanups(_, _, _)
RunCleanups(dels, st, i) ==
  IF i > Len(dels) THEN st
  ELSE LET path == dels[i].key
           info == Get(st.cache, path).info
       IN  RunCleanups(dels,
                       [st EXCEPT !.cache = Del(@, path),
                                  !.env = cleanup(info, @),
                                  !.cleaned = Append(@, [key |-> path, info |-> info]),
                                  !.order = Append(@, "cleanup")],
                       i + 1)

\* One enqueued closure a called by commit, r being what create(path) did:
\* the info is stored under the key unless create raised.
RunAction(st, a, r) ==
  IF r.raised
  THEN [st EXCEPT !.raised = TRUE, !.env = r.env,
                  !.order = Append(@, "raise")]
  ELSE [st EXCEPT !.cache = Put(@, action(a, r.info)),
                  !.env = r.env,
                  !.built = Append(@, [key |-> a.path, mtime |-> a.mtime,
                                       fn |-> a.create.fn, info |-> r.info]),
                  !.order = Append(@, "build")]

\* commit, second loop: the enqueued actions in order; the first one that
\* raises ends the loop.
RECURSIVE RunActions(_, _, _, _)
RunActions(actions, oracle, st, i) ==
  IF i > Len(actions) \/ st.raised THEN st
  ELSE RunActions(actions, oracle,
                  RunAction(st, actions[i],
                            RunCreate(actions[i].create, actions[i].path,
                                      st.env, oracle[i])),
                  i + 1)

\* _save: open(path, "w") truncates the file, json.dump then writes the map
\* or raises on a payload it cannot serialize.
_save(cache) == IF Serializable(cache) THEN JsonFile(cache) ELSE PartialFile

\* The end of commit: an exception of an action has left commit with the
\* file as it was, else _save writes the map.
Finish(st, file) ==
  LET saved == _save(st.cache)
  IN  IF st.raised
      THEN [cache |-> st.cache, env |-> st.env, file |-> file,
            cleaned |-> st.cleaned, built |-> st.built, order |-> st.order,
            ok |-> FALSE]
      ELSE [cache |-> st.cache, env |-> st.env, file |-> saved,
            cleaned |-> st.cleaned, built |-> st.built,
            order |-> Append(st.order,
                             IF saved.kind = "json" THEN "save" ELSE "savefail"),
            ok |-> saved.kind = "json"]

\* commit that writes the file before it runs the build actions.
commit_SaveFirst(t, env, file, oracle) ==
  LET c == RunCleanups(t.deletions, Begin(t, env), 1)
  IN  Finish(RunActions(t.actions, oracle, c, 1), _save(c.cache))

\* commit with its two loops exchanged.
commit_BuildFirst(t, env, file, oracle) ==
  Finish(RunCleanups(t.deletions,
                     RunActions(t.actions, oracle, Begin(t, env), 1), 1),
         file)

commit(t, env, file, oracle) ==
  Finish(RunActions(t.actions, oracle,
                    RunCleanups(t.deletions, Begin(t, env), 1), 1),
         file)

\* ------------------------------------------------------------------------
\* The templates directory (build.py process_files)
\* ------------------------------------------------------------------------
\* The template files of the model, in the order find_files lists them.
TemplateFiles == <<"base.html", "post.html">>

\* A site starts with one template file.
InitialTemplates == [n \in {TemplateFiles[1]} |-> 1]

\* template_mtimes: os.path.getmtime of every file find_files gives.
template_mtimes(tpl) ==
  LET found == SelectSeq(TemplateFiles, LAMBDA n : n \in DOMAIN tpl)
  IN  [i \in DOMAIN found |-> tpl[found[i]]]

\* ------------------------------------------------------------------------
\* Specification of the tracker: runs of construct, add*, commit
\* ------------------------------------------------------------------------
\* Nothing has been built yet: no cache file, an empty FactStore, and tree
\* as the content directory, written by n changes.
Start(tree, n) ==
  /\ cacheFile = NoFile
  /\ tracker = NoTracker
  /\ pc = "idle"
  /\ store = <<>>
  /\ outputs = {}
  /\ prior = <<>>
  /\ adds = <<>>
  /\ cleaned = <<>>
  /\ built = <<>>
  /\ order = <<>>
  /\ lastGood = NoFile
  /\ runs = 0
  /\ sources = tree
  /\ tasks = <<>>
  /\ edits = n
  /\ usedTasks = <<>>
  /\ templates = InitialTemplates
  /\ renderFile = NoFile
  /\ renderPrior = <<>>
  /\ rendered = <<>>
  /\ prevStore = <<>>
  /\ builtSources = <<>>
  /\ builtTemplates = InitialTemplates
  /\ prevTemplates = InitialTemplates
  /\ unchanged = FALSE
  /\ table = {}
  /\ lastAdd = <<>>
  /\ asked = <<>>
  /\ answer = <<>>
  /\ siteCache = <<>>
  /\ watcher = [scheduled |-> FALSE, stopped |-> FALSE, lock |-> "none",
                building |-> 0, calls |-> 0, started |-> 0]
  /\ threads = [t \in {"main", "observer", "builder"} |->
                  IF t = "builder" THEN "sleep" ELSE "idle"]
  /\ applied = <<>>
  /\ returned = <<>>

Init == Start(<<>>, 0)

\* ChangeTracker.__init__: json.load raises on a malformed file.
New ==
  /\ pc # "open"
  /\ runs < MaxRuns
  /\ runs' = runs + 1
  /\ IF cacheFile.kind = "partial"
     THEN pc' = "crashed" /\ tracker' = NoTracker
     ELSE pc' = "open" /\ tracker' = ChangeTracker(cacheFile)
  /\ prior' = tracker'.cache
  /\ adds' = <<>>
  /\ cleaned' = <<>>
  /\ built' = <<>>
  /\ order' = <<>>
  /\ UNCHANGED <<dbVars, cacheFile, store, outputs, lastGood, siteVars>>

Add ==
  /\ pc = "open"
  /\ Len(adds) < MaxAdds
  /\ \E path \in Keys, mtime \in Mtimes :
       /\ tracker' = add(tracker, path, GenericCreate, mtime)
       /\ adds' = Append(adds, [path |-> path, mtime |-> mtime,
                                enqueued |-> Len(tracker'.actions) > Len(tracker.actions)])
  /\ UNCHANGED <<dbVars, cacheFile, pc, store, outputs, prior, cleaned, built, order,
                 lastGood, runs, siteVars>>

Commit ==
  /\ pc = "open"
  /\ \E oracle \in [1..Len(tracker.actions) -> Outcomes] :
     \E r \in {commit(tracker, Env(store, outputs, sources), cacheFile, oracle)} :
           /\ tracker' = [tracker EXCEPT !.cache = r.cache]
           /\ cacheFile' = r.file
           /\ store' = r.env.store
           /\ outputs' = r.env.outputs
           /\ cleaned' = r.cleaned
           /\ built' = r.built
           /\ order' = r.order
           /\ pc' = IF r.ok THEN "done" ELSE "failed"
           /\ lastGood' = IF r.ok THEN r.file ELSE lastGood
  /\ UNCHANGED <<dbVars, prior, adds, runs, siteVars>>

\* build.py command_clean: the build directory, with the cache file in it,
\* is removed; the process that ran the last commit has ended.
Clean ==
  /\ pc # "open"
  /\ cacheFile.kind # "missing"
  /\ cacheFile' = NoFile
  /\ lastGood' = NoFile
  /\ store' = <<>>
  /\ outputs' = {}
  /\ pc' = "idle"
  /\ tracker' = NoTracker
  /\ prior' = <<>>
  /\ adds' = <<>>
  /\ cleaned' = <<>>
  /\ built' = <<>>
  /\ order' = <<>>
  /\ UNCHANGED <<dbVars, runs, siteVars>>

Next == New \/ Add \/ Commit \/ Clean

Spec == Init /\ [][Next]_vars

\* ------------------------------------------------------------------------
\* Properties of the tracker
\* ------------------------------------------------------------------------
AddedPaths == {adds[i].path : i \in DOMAIN adds}

CleanedKeys == {cleaned[i].key : i \in DOMAIN cleaned}

BuiltKeys == {built[i].key : i \in DOMAIN built}

Committed == pc \in {"done", "failed"}

EndsWith(seq, x) == Len(seq) > 0 /\ seq[Len(seq)] = x

\* The info of the last build action that ran for key k in this commit.
LastBuilt(k) ==
  built[CHOOSE i \in DOMAIN built :
          /\ built[i].key = k
          /\ \A j \in DOMAIN built : built[j].key = k => j <= i]

\* C2 as stated: a key of the loaded cache that was not added is cleaned
\* exactly once, with its recorded info, and after commit neither the
\* in-memory nor the persisted cache holds it - whether or not the commit
\* completed.
C2_Original ==
  Committed =>
    \A k \in DictKeys(prior) \ AddedPaths :
      /\ Cardinality({i \in DOMAIN cleaned : cleaned[i].key = k}) = 1
      /\ \A i \in DOMAIN cleaned :
           cleaned[i].key = k => cleaned[i].info = Get(prior, k).info
      /\ ~Has(tracker.cache, k)
      /\ ~Has(cacheFile.data, k)

\* C2 (amended): a key of the loaded cache that was not added is cleaned
\* exactly once, with the info the loaded cache recorded for it, and after
\* commit the in-memory cache has no entry for it; the persisted cache has
\* no entry for it once the commit has returned normally.
C2_VanishedKeyCleanedOnce ==
  Committed =>
    \A k \in DictKeys(prior) \ AddedPaths :
      /\ Cardinality({i \in DOMAIN cleaned : cleaned[i].key = k}) = 1
      /\ \A i \in DOMAIN cleaned :
           cleaned[i].key = k => cleaned[i].info = Get(prior, k).info
      /\ ~Has(tracker.cache, k)
      /\ pc = "done" => cacheFile.kind = "json" /\ ~Has(cacheFile.data, k)

C2_Witness ==
  /\ pc = "done"
  /\ DictKeys(prior) \ AddedPaths # {}
  /\ Len(built) > 0

\* C4: when a build action raises during commit, the cache file is exactly
\* what it was before the commit started.
C4_FailedCommitKeepsFile ==
  [][(pc = "open" /\ pc' = "failed" /\ EndsWith(order', "raise"))
       => cacheFile' = cacheFile]_vars

C4_Witness ==
  /\ pc = "failed"
  /\ EndsWith(order, "raise")
  /\ Len(cleaned) > 0
  /\ Len(built) > 0
  /\ cacheFile.kind = "json"

\* C5: the cache file is at every moment the complete map written by the
\* last successful commit (or absent when none was written), never a
\* truncated or partial file.
C5_FileAlwaysComplete == cacheFile = lastGood

\* C6: an add whose fingerprint equals that of the path's prior entry
\* enqueues nothing, and after commit the entry is unchanged and was not
\* cleaned.
C6_UnchangedKeySkipped ==
  \A i \in DOMAIN adds :
    (Has(prior, adds[i].path) /\ Get(prior, adds[i].path).mtime = adds[i].mtime)
      => /\ ~adds[i].enqueued
         /\ pc = "done" =>
              /\ Has(tracker.cache, adds[i].path)
              /\ Get(tracker.cache, adds[i].path) = Get(prior, adds[i].path)
              /\ adds[i].path \notin CleanedKeys

\* C7: within one commit at most one build action runs for a given key and
\* fingerprint.
C7_OneBuildPerKeyAndFingerprint ==
  \A i, j \in DOMAIN built :
    (built[i].key = built[j].key /\ built[i].mtime = built[j].mtime) => i = j

\* C8: in a commit every cleanup precedes every build action, and the file
\* is written last, after all enqueued build actions have returned.
C8_CleanupThenBuildThenSave ==
  /\ \A i, j \in DOMAIN order :
       i < j => /\ order[j] = "cleanup" => order[i] = "cleanup"
                /\ order[i] \notin {"save", "savefail", "raise"}
  /\ (EndsWith(order, "save") \/ EndsWith(order, "savefail"))
       => Len(built) = Len(tracker.actions)
  /\ Committed => DictKeys(tracker.deletions) = CleanedKeys

C8_Witness ==
  /\ pc = "done"
  /\ EndsWith(order, "save")
  /\ Len(cleaned) > 0
  /\ Len(built) > 0

\* C9: after a successful commit the keys of the cache, in memory and in
\* the file, are the paths added in the pass; a built key maps to the info
\* its build action returned, a skipped key to its prior entry.
C9_CacheAfterCommit ==
  pc = "done" =>
    /\ DictKeys(tracker.cache) = AddedPaths
    /\ cacheFile = JsonFile(tracker.cache)
    /\ \A k \in AddedPaths :
         IF k \in BuiltKeys
         THEN Get(tracker.cache, k).info = LastBuilt(k).info
         ELSE Has(prior, k) /\ Get(tracker.cache, k) = Get(prior, k)

C9_Witness ==
  /\ pc = "done"
  /\ BuiltKeys # {}
  /\ AddedPaths \ BuiltKeys # {}

\* ------------------------------------------------------------------------
\* Phase (build.py): classification of the content directory
\* ------------------------------------------------------------------------
\* The paths of the model, in the order list.sort() gives their strings:
\* "a.txt" < "b.TXT" < "p/a.md" < "p/a/index.md" < "p/b.md" < "p/index.md".
SortedPaths ==
  << Path(<<>>, "a", "txt"), Path(<<>>, "b", "TXT"),
     Path(<<"p">>, "a", "md"), Path(<<"p", "a">>, "index", "md"),
     Path(<<"p">>, "b", "md"), Path(<<"p">>, "index", "md") >>

PhasePaths == {SortedPaths[1], SortedPaths[2], SortedPaths[3]}

\* find_files without result.sort(): the files as os.walk lists them, here
\* last name first.
find_files_Walk(tree) ==
  LET found == SelectSeq(SortedPaths, LAMBDA f : f \in DOMAIN tree)
  IN  [i \in DOMAIN found |-> found[Len(found) + 1 - i]]

\* utils.find_files: every file under the root, sorted.
find_files(tree) == SelectSeq(SortedPaths, LAMBDA f : f \in DOMAIN tree)

\* The patterns of the model: "txt" is .*\.txt, "md" is (.*/)?.*\.md and
\* "any" is .* ; re.search("^%s$" % pattern, relpath, re.IGNORECASE).
Patterns == {"txt", "md", "any"}

\* The patterns the rules of the Phase specification are drawn from.
PhasePatterns == {"txt", "any"}

Matches(pattern, relpath) == pattern = "any" \/ Lower(relpath.ext) = pattern

Handlers == {"ignore", "copy_file"}

Task(when, then) == [when |-> when, then |-> then]

\* The handler lists of site.yaml the model draws from.
TaskLists ==
  LET rules == {Task(w, t) : w \in PhasePatterns, t \in Handlers}
  IN  {<<>>} \cup {<<r>> : r \in rules} \cup {<<r, q>> : r, q \in rules}

\* The inner loop of process() without its break.
RECURSIVE Dispatch_NoBreak(_, _, _)
Dispatch_NoBreak(ts, relpath, i) ==
  IF i > Len(ts) THEN <<>>
  ELSE IF Matches(ts[i].when, relpath)
       THEN <<ts[i].then>> \o Dispatch_NoBreak(ts, relpath, i + 1)
       ELSE Dispatch_NoBreak(ts, relpath, i + 1)

\* The inner loop of process() with a handler for files no rule matches.
RECURSIVE Dispatch_Fallback(_, _, _)
Dispatch_Fallback(ts, relpath, i) ==
  IF i > Len(ts) THEN <<"copy_file">>
  ELSE IF Matches(ts[i].when, relpath)
       THEN <<ts[i].then>>
       ELSE Dispatch_Fallback(ts, relpath, i + 1)

\* The inner loop of process(): the handlers it passes to tracker.add for
\* one file, from rule i on.
RECURSIVE Dispatch(_, _, _)
Dispatch(ts, relpath, i) ==
  IF i > Len(ts) THEN <<>>
  ELSE IF Matches(ts[i].when, relpath)
       THEN <<ts[i].then>>
       ELSE Dispatch(ts, relpath, i + 1)

\* tracker.add for each handler Dispatch gave for one file; mtime is
\* os.path.getmtime(path).
RECURSIVE AddHandlers(_, _, _, _, _)
AddHandlers(st, path, mtime, hs, i) ==
  IF i > Len(hs) THEN st
  ELSE LET t == add(st.t, path, [fn |-> hs[i]], mtime)
       IN  AddHandlers([t |-> t,
                        adds |-> Append(st.adds,
                                   [path |-> path, mtime |-> mtime, fn |-> hs[i],
                                    enqueued |-> Len(t.actions) > Len(st.t.actions)])],
                       path, mtime, hs, i + 1)

\* The outer loop of process().
RECURSIVE AddFiles(_, _, _, _, _)
AddFiles(st, files, ts, tree, i) ==
  IF i > Len(files) THEN st
  ELSE AddFiles(AddHandlers(st, files[i], tree[files[i]].mtime,
                            Dispatch(ts, files[i], 1), 1),
                files, ts, tree, i + 1)

\* No create callback raises.
Quiet(n) == [i \in 1..n |-> [raised |-> FALSE, info |-> PlainInfo(1)]]

\* The last line of process(): the commit of what the loop added.
process_commit(a, env, file, oracle) ==
  [t |-> a.t, adds |-> a.adds, r |-> commit(a.t, env, file, oracle)]

\* Phase(cache, root, document_store), add_task for every rule, process().
process(file, ts, tree, env, oracle) ==
  process_commit(AddFiles([t |-> ChangeTracker(file), adds |-> <<>>],
                          find_files(tree), ts, tree, 1),
                 env, file, oracle)

\* ------------------------------------------------------------------------
\* Specification of Phase: the content directory and the rules change
\* between runs of process()
\* ------------------------------------------------------------------------
WriteFile ==
  /\ pc \in {"idle", "done"}
  /\ edits < MaxEdits
  /\ \E f \in PhasePaths, m \in Mtimes :
       /\ f \in DOMAIN sources => sources[f].mtime # m
       /\ sources' = [g \in DOMAIN sources \cup {f} |->
                        IF g = f THEN File(m, "plain", NoDate) ELSE sources[g]]
  /\ edits' = edits + 1
  /\ UNCHANGED <<dbVars, trackerVars, tasks, usedTasks, renderVars>>

RemoveFile ==
  /\ pc \in {"idle", "done"}
  /\ edits < MaxEdits
  /\ \E f \in DOMAIN sources :
       sources' = [g \in DOMAIN sources \ {f} |-> sources[g]]
  /\ edits' = edits + 1
  /\ UNCHANGED <<dbVars, trackerVars, tasks, usedTasks, renderVars>>

SetTasks ==
  /\ pc \in {"idle", "done"}
  /\ edits < MaxEdits
  /\ \E ts \in TaskLists : ts # tasks /\ tasks' = ts
  /\ edits' = edits + 1
  /\ UNCHANGED <<dbVars, trackerVars, sources, usedTasks, renderVars>>

Process ==
  /\ pc \in {"idle", "done"}
  /\ runs < MaxRuns
  /\ cacheFile.kind # "partial"
  /\ \E p \in {process(cacheFile, tasks, sources,
                        Env(store, outputs, sources),
                        Quiet(Cardinality(DOMAIN sources) * (Len(tasks) + 1)))} :
         /\ tracker' = [p.t EXCEPT !.cache = p.r.cache]
         /\ prior' = ChangeTracker(cacheFile).cache
         /\ adds' = p.adds
         /\ cacheFile' = p.r.file
         /\ store' = p.r.env.store
         /\ outputs' = p.r.env.outputs
         /\ cleaned' = p.r.cleaned
         /\ built' = p.r.built
         /\ order' = p.r.order
         /\ pc' = IF p.r.ok THEN "done" ELSE "failed"
         /\ lastGood' = IF p.r.ok THEN p.r.file ELSE lastGood
  /\ usedTasks' = tasks
  /\ builtSources' = sources
  /\ runs' = runs + 1
  /\ UNCHANGED <<dbVars, sources, tasks, edits, templates, renderFile, renderPrior,
                 rendered, prevStore, builtTemplates, prevTemplates,
                 unchanged>>

NextPhase == WriteFile \/ RemoveFile \/ SetTasks \/ Process

SpecPhase == Init /\ [][NextPhase]_vars

\* ------------------------------------------------------------------------
\* Properties of Phase
\* ------------------------------------------------------------------------
\* The rules of the last process() that match a relative path.
MatchingRules(relpath) ==
  {k \in DOMAIN usedTasks : Matches(usedTasks[k].when, relpath)}

FirstRule(relpath) ==
  CHOOSE k \in MatchingRules(relpath) : \A j \in MatchingRules(relpath) : k <= j

\* C10: process() passes a file to the tracker once, with the handler of
\* the first rule that matches it, and only that handler is executed for it.
C10_FirstMatchWins ==
  pc = "done" =>
    /\ \A i \in DOMAIN adds :
         /\ MatchingRules(adds[i].path) # {}
         /\ adds[i].fn = usedTasks[FirstRule(adds[i].path)].then
         /\ \A j \in DOMAIN adds : adds[j].path = adds[i].path => j = i
    /\ \A i \in DOMAIN built :
         built[i].fn = usedTasks[FirstRule(built[i].key)].then

C10_Witness ==
  /\ pc = "done"
  /\ \E i \in DOMAIN built :
       /\ Cardinality(MatchingRules(built[i].key)) = 2
       /\ usedTasks[1].then # usedTasks[2].then

\* The files the last process() found that none of its rules matches.
Unmatched == {f \in DOMAIN builtSources : MatchingRules(f) = {}}

\* C11: a file no rule matches is not passed to the tracker: no handler
\* runs for it, it has no output and no cache entry after process(), and
\* process() ends without an error.
C11_UnmatchedFileSkipped ==
  runs >= 1 =>
    /\ pc = "done"
    /\ \A f \in Unmatched :
         /\ f \notin AddedPaths
         /\ f \notin BuiltKeys
         /\ f \notin outputs
         /\ ~Has(tracker.cache, f)
         /\ cacheFile.kind = "json" /\ ~Has(cacheFile.data, f)

\* process() ran over a tree with a file that no rule matched and a file
\* that a rule matched.
C11_Witness ==
  /\ pc = "done"
  /\ Unmatched # {}
  /\ built # <<>>

\* ------------------------------------------------------------------------
\* process_files (build.py): phase 1 and the render-cache pass
\* ------------------------------------------------------------------------
SitePaths == {SortedPaths[3], SortedPaths[5], SortedPaths[6]}

\* The documents the model writes carry no date.
Dates == {NoDate}

\* The templates a document of the model may name: an index page lists
\* its children, a leaf page may list its siblings.
TemplatesOf(path) ==
  IF is_index(path) THEN {"children", "childprev"}
  ELSE {"plain", "siblings", "thumbs"}

\* The handlers of the site: every markdown file is imported.
SiteTasks == <<Task("md", "import_markdown")>>

\* The loop over website.documents(): the stored queries of each page are
\* evaluated again and the page is added with the digest as fingerprint.
RECURSIVE AddPages(_, _, _, _, _)
AddPages(t, snapshot, template_hash, documents, i) ==
  IF i > Len(documents) THEN t
  ELSE LET document == documents[i]
           queries == IF Has(t.cache, document.url)
                      THEN Get(t.cache, document.url).info.queries
                      ELSE <<>>
           hash == Digest(template_hash, document,
                          evaluate_queries(snapshot, document, queries))
       IN  AddPages(add(t, document.url,
                        [fn |-> "render", template_hash |-> template_hash],
                        hash),
                    snapshot, template_hash, documents, i + 1)

\* The render-cache pass of process_files, after phase1.process().
render_commit(t, env, file) == commit(t, env, file, Quiet(Len(t.actions)))

render_pass(file, tpl, env) ==
  render_commit(AddPages(ChangeTracker(file), env.store,
                         hash_items(template_mtimes(tpl)),
                         posts(env.store, AllPosts, FALSE), 1),
                env, file)

\* Site.load_cache: the documents of the store are read once; a cache
\* that is loaded is kept.
load_cache(cache, st) == IF cache # <<>> THEN cache ELSE <<st>>

\* process_files that goes on to the render-cache pass after an exception
\* of phase 1.
after_phase1_Always(p, rfile, tpl) ==
  [phase1 |-> p, site |-> load_cache(<<>>, p.r.env.store),
   render |-> render_pass(rfile, tpl, p.r.env)]

\* What follows phase1.process() in process_files: an exception of phase 1
\* ends the task before any page is looked at. Website() makes the Site,
\* whose cache website.documents() loads.
after_phase1(p, rfile, tpl) ==
  IF p.r.ok
  THEN [phase1 |-> p, site |-> load_cache(<<>>, p.r.env.store),
        render |-> render_pass(rfile, tpl, p.r.env)]
  ELSE [phase1 |-> p, site |-> <<>>,
        render |-> [cache |-> <<>>, env |-> p.r.env, file |-> rfile,
                    cleaned |-> <<>>, built |-> <<>>, order |-> <<>>,
                    ok |-> FALSE]]

\* process_files: phase1.process(), then the render-cache pass. The oracle
\* says which handler of phase 1 raises, if any.
process_files(file, rfile, tree, tpl, env, oracle) ==
  after_phase1(process(file, SiteTasks, tree, env, oracle), rfile, tpl)

\* ------------------------------------------------------------------------
\* Specification of the build: documents and templates are edited between
\* runs of process_files
\* ------------------------------------------------------------------------
Editable == pc \in {"idle", "done"} /\ edits < MaxEdits

WriteDoc ==
  /\ Editable
  /\ \E f \in SitePaths, m \in Mtimes, date \in Dates :
     \E tmpl \in TemplatesOf(f) :
       /\ f \in DOMAIN sources => sources[f].mtime # m
       /\ sources' = [g \in DOMAIN sources \cup {f} |->
                        IF g = f THEN File(m, tmpl, date) ELSE sources[g]]
  /\ edits' = edits + 1
  /\ UNCHANGED <<dbVars, trackerVars, tasks, usedTasks, renderVars>>

RemoveDoc ==
  /\ Editable
  /\ \E f \in DOMAIN sources :
       sources' = [g \in DOMAIN sources \ {f} |-> sources[g]]
  /\ edits' = edits + 1
  /\ UNCHANGED <<dbVars, trackerVars, tasks, usedTasks, renderVars>>

\* os.rename keeps the content and the mtime of the file.
MoveDoc ==
  /\ Editable
  /\ \E f \in DOMAIN sources, g \in SitePaths \ DOMAIN sources :
       sources' = [h \in (DOMAIN sources \ {f}) \cup {g} |->
                     IF h = g THEN sources[f] ELSE sources[h]]
  /\ edits' = edits + 1
  /\ UNCHANGED <<dbVars, trackerVars, tasks, usedTasks, renderVars>>

\* A template file is edited, or a new one is written.
TouchTemplate ==
  /\ Editable
  /\ \E n \in Range(TemplateFiles), m \in Mtimes :
       /\ n \in DOMAIN templates => templates[n] # m
       /\ templates' = [k \in DOMAIN templates \cup {n} |->
                          IF k = n THEN m ELSE templates[k]]
  /\ edits' = edits + 1
  /\ UNCHANGED <<dbVars, trackerVars, sources, tasks, usedTasks, renderFile,
                 renderPrior, rendered, prevStore, builtSources,
                 builtTemplates, prevTemplates, unchanged>>

RemoveTemplate ==
  /\ Editable
  /\ \E n \in DOMAIN templates :
       templates' = [k \in DOMAIN templates \ {n} |-> templates[k]]
  /\ edits' = edits + 1
  /\ UNCHANGED <<dbVars, trackerVars, sources, tasks, usedTasks, renderFile,
                 renderPrior, rendered, prevStore, builtSources,
                 builtTemplates, prevTemplates, unchanged>>

\* os.rename keeps the mtime of the template file.
MoveTemplate ==
  /\ Editable
  /\ \E n \in DOMAIN templates, g \in Range(TemplateFiles) \ DOMAIN templates :
       templates' = [k \in (DOMAIN templates \ {n}) \cup {g} |->
                       IF k = g THEN templates[n] ELSE templates[k]]
  /\ edits' = edits + 1
  /\ UNCHANGED <<dbVars, trackerVars, sources, tasks, usedTasks, renderFile,
                 renderPrior, rendered, prevStore, builtSources,
                 builtTemplates, prevTemplates, unchanged>>

\* One run of process_files over the site as it is.
BuildWith(oracle) ==
  /\ runs < MaxRuns
  /\ \E b \in {process_files(cacheFile, renderFile, sources, templates,
                              Env(store, outputs, sources), oracle)} :
     LET p == b.phase1
         r == b.render
     IN  /\ tracker' = [p.t EXCEPT !.cache = p.r.cache]
         /\ prior' = ChangeTracker(cacheFile).cache
         /\ adds' = p.adds
         /\ cacheFile' = p.r.file
         /\ cleaned' = p.r.cleaned
         /\ built' = p.r.built
         /\ order' = p.r.order
         /\ lastGood' = IF p.r.ok THEN p.r.file ELSE lastGood
         /\ store' = r.env.store
         /\ outputs' = r.env.outputs
         /\ renderFile' = r.file
         /\ renderPrior' = ChangeTracker(renderFile).cache
         /\ rendered' = r.built
         /\ pc' = IF r.ok THEN "done" ELSE "failed"
         /\ siteCache' = b.site
  /\ prevStore' = store
  /\ builtSources' = sources
  /\ builtTemplates' = templates
  /\ prevTemplates' = builtTemplates
  /\ unchanged' = (runs >= 1 /\ sources = builtSources
                             /\ templates = builtTemplates)
  /\ usedTasks' = SiteTasks
  /\ runs' = runs + 1
  /\ UNCHANGED <<table, lastAdd, queryVars, watchVars, schemaVars, sources, tasks, edits,
                 templates>>

\* A build in which no handler raises.
Build ==
  /\ pc \in {"idle", "done"}
  /\ BuildWith(Quiet(Cardinality(DOMAIN sources)))

\* The handler of the k-th build action raises.
FailAt(n, k) ==
  [i \in 1..n |-> [raised |-> (i = k), info |-> PlainInfo(1)]]

\* A build in which a handler of phase 1 may raise; a failed build can be
\* followed by another build.
BuildRun ==
  /\ pc \in {"idle", "done", "failed"}
  /\ \E k \in 0..Cardinality(DOMAIN sources) :
       BuildWith(FailAt(Cardinality(DOMAIN sources), k))

NextRun == WriteDoc \/ RemoveDoc \/ MoveDoc \/ BuildRun

NextBuild ==
  \/ WriteDoc \/ RemoveDoc \/ MoveDoc
  \/ TouchTemplate \/ RemoveTemplate \/ MoveTemplate
  \/ Build

\* The site the build specification starts from: an index page that reads
\* the previous document of each child, and one child.
InitialSite ==
  [f \in {SortedPaths[3], SortedPaths[6]} |->
     File(1, IF is_index(f) THEN "childprev" ELSE "plain", NoDate)]

InitBuild == Start(InitialSite, 1)

SpecBuild == InitBuild /\ [][NextBuild]_vars

SpecRun == InitBuild /\ [][NextRun]_vars

\* ------------------------------------------------------------------------
\* Properties of the build
\* ------------------------------------------------------------------------
RenderedUrls == {rendered[i].key : i \in DOMAIN rendered}

\* C1: a build that follows a build of the same sources, templates and
\* FactStore runs no build action and renders no page.
C1_SecondBuildDoesNothing ==
  (pc = "done" /\ unchanged) => built = <<>> /\ rendered = <<>>

\* The urls and the mtimes of the members of a query result.
Members(documents) == {documents[i].url : i \in DOMAIN documents}

MemberMtime(documents, url) ==
  LET i == CHOOSE k \in DOMAIN documents : documents[k].url = url
  IN  documents[i].mtime

\* The result of a stored query of page P changed between the snapshot of
\* the build before and the snapshot of the last build: a member was added
\* or removed, or a member has another mtime.
ResultChanged(P, parameters) ==
  LET old == _run_query(prevStore, prevStore[P], parameters)
      new == _run_query(store, store[P], parameters)
  IN  \/ Members(old) # Members(new)
      \/ \E u \in Members(old) \cap Members(new) :
           MemberMtime(old, u) # MemberMtime(new, u)

\* C3: a page whose last render evaluated a children or siblings query is
\* rendered again by the next build when the result of that query gained or
\* lost a document or a member's mtime changed, the page's own mtime and
\* the templates being the same.
C3_ChangedResultRerenders ==
  (pc = "done" /\ runs >= 2) =>
    \A P \in DictKeys(renderPrior) \cap DOMAIN prevStore \cap DOMAIN store :
      ( /\ store[P].mtime = prevStore[P].mtime
        /\ builtTemplates = prevTemplates
        /\ \E i \in DOMAIN Get(renderPrior, P).info.queries :
             LET parameters == Get(renderPrior, P).info.queries[i].key
             IN  /\ parameters.type \in {"children", "siblings"}
                 /\ ResultChanged(P, parameters) )
      => P \in RenderedUrls

\* The source paths the build before knew that the last build did not find.
VanishedPaths == DictKeys(prior) \ DOMAIN builtSources

\* The urls of the documents the last build found.
SourceUrls == {UrlOf(g) : g \in DOMAIN builtSources}

\* C12: after a source file moved and the site was built again, the
\* document and the page of the old url are gone, those of the new url
\* exist, and neither cache has an entry for the old path or the old url.
C12_MovedDocument ==
  (pc = "done" /\ runs >= 1) =>
    /\ \A f \in VanishedPaths :
         /\ ~Has(cacheFile.data, f)
         /\ \A i \in DOMAIN Get(prior, f).info.urls :
              LET url == Get(prior, f).info.urls[i]
              IN  url \notin SourceUrls =>
                    /\ url \notin DOMAIN store
                    /\ PageOf(url) \notin outputs
                    /\ ~Has(renderFile.data, url)
    /\ \A g \in DOMAIN builtSources :
         /\ Has(cacheFile.data, g)
         /\ UrlOf(g) \in DOMAIN store
         /\ PageOf(UrlOf(g)) \in outputs
         /\ Has(renderFile.data, UrlOf(g))

\* A build found a file at a new path with the mtime the cache of the
\* build before holds for a path that is gone: the file was moved.
C12_Witness ==
  /\ pc = "done"
  /\ \E f \in VanishedPaths, g \in DOMAIN builtSources \ DictKeys(prior) :
       /\ Get(prior, f).mtime = builtSources[g].mtime
       /\ UrlOf(f) \in DictKeys(renderPrior)
       /\ UrlOf(f) # UrlOf(g)

\* C13: the queries a render recorded for a page, evaluated again for that
\* page on the FactStore the render saw, give the fingerprints recorded.
C13_ReevaluationAgrees ==
  pc = "done" =>
    \A i \in DOMAIN rendered :
      evaluate_queries(store, store[rendered[i].key], rendered[i].info.queries)
        = Hashes(rendered[i].info.queries)

\* A result list as the documents it names, in order, with their mtimes.
Listing(documents) ==
  [i \in DOMAIN documents |-> <<documents[i].url, documents[i].mtime>>]

\* The fingerprint QueryTracker.add and evaluate_queries give a result.
Fingerprint(documents) == hash_items(Mtimes_of(documents))

\* C14: when the result of a stored query differs between two builds in
\* its members, their order or a member's mtime, its fingerprint differs.
C14_FingerprintSeparatesResults ==
  (pc = "done" /\ runs >= 2) =>
    \A P \in DictKeys(renderPrior) \cap DOMAIN prevStore \cap DOMAIN store :
      \A i \in DOMAIN Get(renderPrior, P).info.queries :
        LET parameters == Get(renderPrior, P).info.queries[i].key
            old == _run_query(prevStore, prevStore[P], parameters)
            new == _run_query(store, store[P], parameters)
        IN  Listing(old) # Listing(new) => Fingerprint(old) # Fingerprint(new)

\* The hashes evaluate_queries gives the queries of the i-th render of the
\* last build, on the FactStore that render saw.
Reevaluated(i) ==
  evaluate_queries(store, store[rendered[i].key], rendered[i].info.queries)

\* The digest the next run computes for the page of the i-th render when
\* neither the templates nor the document changed.
Recomputed(i) ==
  Digest(hash_items(template_mtimes(builtTemplates)), store[rendered[i].key],
         Reevaluated(i))

\* C15: the digest stored by a render and the digest computed again from
\* the same template fingerprint, document and result fingerprints are
\* equal; with a result fingerprint that differs the digest differs.
C15_DigestStable ==
  pc = "done" =>
    \A i \in DOMAIN rendered :
      LET stored == Get(renderFile.data, rendered[i].key).mtime
      IN  /\ Reevaluated(i) = Hashes(rendered[i].info.queries)
               => Recomputed(i) = stored
          /\ Reevaluated(i) # Hashes(rendered[i].info.queries)
               => Recomputed(i) # stored

\* A build rendered a page whose queries evaluate to the fingerprints
\* recorded and a page with a query that evaluates to another fingerprint.
C15_Witness ==
  /\ pc = "done"
  /\ \E i, j \in DOMAIN rendered :
       /\ rendered[i].info.queries # <<>>
       /\ Reevaluated(i) = Hashes(rendered[i].info.queries)
       /\ Reevaluated(j) # Hashes(rendered[j].info.queries)

\* C16: when a template file was edited, added or removed between two
\* builds, the second build renders every page of the FactStore.
C16_TemplateChangeRerendersAll ==
  (pc = "done" /\ runs >= 2 /\ builtTemplates # prevTemplates) =>
    \A url \in DOMAIN store : url \in RenderedUrls

\* C17: the query set a render stores for a page holds every lookup the
\* render of that page depends on, whatever was rendered before it: it is
\* the set a process that rendered no other page records.
C17_EveryLookupRecorded ==
  pc = "done" =>
    \A i \in DOMAIN rendered :
      rendered[i].info.queries = RenderQueries(store, store[rendered[i].key])

\* The keys of a query set.
QueryKeys(queries) == {queries[i].key : i \in DOMAIN queries}

\* C18: after a page was rendered its entry of the render cache holds the
\* query set that render captured, and as fingerprint the digest over the
\* fingerprints that render recorded, not the one passed to add.
C18_EntryHoldsCapturedQueries ==
  pc = "done" =>
    \A i \in DOMAIN rendered :
      LET entry == Get(renderFile.data, rendered[i].key)
      IN  /\ Has(renderFile.data, rendered[i].key)
          /\ entry.info.queries = rendered[i].info.queries
          /\ entry.mtime =
               Digest(hash_items(template_mtimes(builtTemplates)),
                      store[rendered[i].key],
                      Hashes(rendered[i].info.queries))

\* A page was rendered again with a fingerprint passed to add that is not
\* the digest of the render, and a query of its previous render was not
\* executed again.
C18_Witness ==
  /\ pc = "done"
  /\ \E i \in DOMAIN rendered :
       /\ Has(renderPrior, rendered[i].key)
       /\ rendered[i].mtime # rendered[i].info.mtime
       /\ QueryKeys(Get(renderPrior, rendered[i].key).info.queries)
            \ QueryKeys(rendered[i].info.queries) # {}
       /\ QueryKeys(Get(renderFile.data, rendered[i].key).info.queries)
            = QueryKeys(rendered[i].info.queries)

\* C19: constructing a ChangeTracker never fails because of the cache
\* file: a missing file and a malformed file both give an empty prior map,
\* with nothing to clean up.
C19_ConstructionNeverFails ==
  [][runs' = runs + 1 =>
       /\ pc' = "open"
       /\ cacheFile.kind # "json" =>
            tracker'.cache = <<>> /\ tracker'.deletions = <<>>]_vars

\* ------------------------------------------------------------------------
\* The documents table of DocumentStore (service/store.py)
\* ------------------------------------------------------------------------
\* Strings dateutil.parser.isoparse accepts.
IsoStrings == {"2020"}

\* DateTimeEncoder().encode(document.metadata): the JSON text of the
\* metadata, which holds the title and the template.
Encode(doc) == [json |-> [title |-> doc.title, template |-> doc.template]]

\* date_time_decoder: every string value that parses as an ISO date is
\* replaced by the date.
date_time_decoder(v) == IF v \in IsoStrings THEN <<"datetime", v>> ELSE <<v>>

\* The values add binds to the columns of one row (type and contents are
\* bound like parent).
Row(doc) ==
  [url |-> doc.url, parent |-> doc.parent, date |-> doc.date,
   metadata |-> Encode(doc), mtime |-> doc.mtime]

\* DocumentStore.add with a plain INSERT into a table without a key.
DocumentStore_add_Insert(rows, doc) == rows \cup {Row(doc)}

\* DocumentStore.add: INSERT OR REPLACE; url is the PRIMARY KEY, so the
\* row that holds the url is deleted before the new one is inserted.
DocumentStore_add(rows, doc) ==
  {r \in rows : r.url # doc.url} \cup {Row(doc)}

\* DocumentStore.delete: DELETE FROM documents WHERE url = ?
DocumentStore_delete(rows, url) == {r \in rows : r.url # url}

\* DocumentStore.deleteall: DELETE FROM documents
DocumentStore_deleteall(rows) == {}

\* DocumentStore.documents for one row: the decoded metadata with the
\* columns written over it; the date only if the column is not NULL.
ReadRow(row) ==
  [title |-> date_time_decoder(row.metadata.json.title),
   template |-> date_time_decoder(row.metadata.json.template),
   date |-> row.date, url |-> row.url, parent |-> row.parent,
   mtime |-> row.mtime]

\* DocumentStore.get: SELECT ... WHERE url = ? LIMIT 1; the empty sequence
\* stands for None.
DocumentStore_get(rows, url) ==
  LET found == {r \in rows : r.url = url}
  IN  IF found = {} THEN <<>> ELSE <<ReadRow(CHOOSE r \in found : TRUE)>>

\* The documents the store is given: two urls, each with several contents.
StoreDocs ==
  {[Document(p, File(m, "plain", d)) EXCEPT !.title = t] :
     p \in {Path(<<"p">>, "a", "md"), Path(<<"p">>, "b", "md")},
     m \in Mtimes, d \in {NoDate, 1}, t \in {"a", "2020"}}

StoreUrls == {d.url : d \in StoreDocs}

\* What the history holds for a url: the document of the last add, whether
\* that add replaced another row, and whether a delete came after it.
Added(doc, over) == [doc |-> doc, over |-> over, deleted |-> FALSE]

Note(h, url, e) ==
  [u \in DOMAIN h \cup {url} |-> IF u = url THEN e ELSE h[u]]

StoreAddDoc ==
  \E doc \in StoreDocs :
    /\ table' = DocumentStore_add(table, doc)
    /\ lastAdd' = Note(lastAdd, doc.url,
                       Added(doc, \E r \in table :
                                    r.url = doc.url /\ r # Row(doc)))
    /\ UNCHANGED <<trackerVars, siteVars, queryVars, siteCache, watchVars, schemaVars>>

StoreDelete ==
  \E url \in StoreUrls :
    /\ table' = DocumentStore_delete(table, url)
    /\ lastAdd' = IF url \in DOMAIN lastAdd
                  THEN [lastAdd EXCEPT ![url].deleted = TRUE]
                  ELSE lastAdd
    /\ UNCHANGED <<trackerVars, siteVars, queryVars, siteCache, watchVars, schemaVars>>

StoreDeleteAll ==
  /\ table' = DocumentStore_deleteall(table)
  /\ lastAdd' = [u \in DOMAIN lastAdd |-> [lastAdd[u] EXCEPT !.deleted = TRUE]]
  /\ UNCHANGED <<trackerVars, siteVars, queryVars, siteCache, watchVars, schemaVars>>

NextStore == StoreAddDoc \/ StoreDelete \/ StoreDeleteAll

SpecStore == Init /\ [][NextStore]_vars

NoTypes == [given |-> FALSE, types |-> {}]
Types(ts) == [given |-> TRUE, types |-> ts]

\* The arguments of a query; parent = AllPosts stands for parent=None.
Filter(parent, include, exclude) ==
  [parent |-> parent, include |-> include, exclude |-> exclude]

\* The WHERE clause of getall: "if exclude:", "if include:" and "if parent:"
\* add a condition only for an argument that is not empty.
Selected(d, q) ==
  /\ q.exclude.types # {} => d.type \notin q.exclude.types
  /\ q.include.types # {} => d.type \in q.include.types
  /\ q.parent # AllPosts => d.parent = q.parent

\* DocumentStore.getall(parent, include, exclude, asc).
getall_where(st, q, asc) ==
  OrderBy({d \in {st[u] : u \in DOMAIN st} : Selected(d, q)}, asc)

\* Site.posts(include, exclude, parent, ascending): from the snapshot when
\* include and exclude are None, else from DocumentStore.getall.
Site_posts(snapshot, st, q, ascending) ==
  IF ~q.include.given /\ ~q.exclude.given
  THEN posts(snapshot, q.parent, ascending)
  ELSE getall_where(st, q, ascending)

\* The documents of the query specification: a directory p with its index,
\* two documents and one document a level below; _fixup_metadata gives
\* every document a type.
QueryDoc(path, date, type) ==
  Document(path, File(1, "plain", date)) @@ ("type" :> type)

QueryDocs ==
  {QueryDoc(Path(<<"p">>, "index", "md"), NoDate, "general"),
   QueryDoc(Path(<<"p", "a">>, "b", "md"), 1, "general")}
    \cup {QueryDoc(Path(<<"p">>, "a", "md"), d, t) :
            d \in {NoDate, 1, 2}, t \in {"general", "photo"}}
    \cup {QueryDoc(Path(<<"p">>, "b", "md"), d, "general") : d \in {NoDate, 1}}

Filters ==
  {Filter(p, i, e) : p \in {AllPosts, <<"p">>},
                     i \in {NoTypes, Types({"general"})},
                     e \in {NoTypes, Types({"photo"})}}

PutDoc ==
  \E doc \in QueryDocs :
    /\ store' = StoreAdd(store, doc)
    /\ asked' = <<>>
    /\ answer' = <<>>
    /\ UNCHANGED <<cacheFile, tracker, pc, outputs, prior, adds, cleaned,
                   built, order, lastGood, runs, siteVars, table, lastAdd,
                   siteCache, watchVars, schemaVars>>

DropDoc ==
  \E url \in DOMAIN store :
    /\ store' = delete(store, url)
    /\ asked' = <<>>
    /\ answer' = <<>>
    /\ UNCHANGED <<cacheFile, tracker, pc, outputs, prior, adds, cleaned,
                   built, order, lastGood, runs, siteVars, table, lastAdd,
                   siteCache, watchVars, schemaVars>>

\* The direction of a query: not given, ascending or descending. getall
\* has asc=True as its default and Site.posts has ascending=False.
Directions == {"default", "asc", "desc"}

Ascending(dir, default) == IF dir = "default" THEN default ELSE dir = "asc"

\* One query, put to the store and to a site that has loaded it.
Ask ==
  \E q \in Filters, dir \in Directions :
    /\ asked' = <<[kind |-> "posts", filter |-> q, dir |-> dir]>>
    /\ answer' = [getall |-> getall_where(store, q, Ascending(dir, TRUE)),
                  posts |-> Site_posts(store, store, q,
                                       Ascending(dir, FALSE))]
    /\ UNCHANGED <<trackerVars, siteVars, table, lastAdd, siteCache, watchVars, schemaVars>>

\* The relationship types _run_query has a branch for.
Supported == {"posts", "children", "post", "siblings", "previous", "next"}

\* What a lookup leaves behind: whether exit() was called, the queries of
\* the tracker and the documents returned.
Exit(queries) == [exit |-> TRUE, queries |-> queries, documents |-> <<>>]

\* _record_query that takes an unsupported type for a query without result.
RecordQuery_Empty(queries, snapshot, self, parameters) ==
  IF parameters.type \notin Supported
  THEN [exit |-> FALSE,
        queries |-> QueryTracker_add(queries, parameters, <<>>),
        documents |-> <<>>]
  ELSE [exit |-> FALSE,
        queries |-> _record_query(queries, snapshot, self, parameters),
        documents |-> _run_query(snapshot, self, parameters)]

\* _record_query with the last line of _run_query: a type no branch
\* handles reaches exit("Unsupported query ..."), which raises SystemExit
\* out of _run_query, before query_tracker.add.
RecordQuery(queries, snapshot, self, parameters) ==
  IF parameters.type \notin Supported
  THEN Exit(queries)
  ELSE [exit |-> FALSE,
        queries |-> _record_query(queries, snapshot, self, parameters),
        documents |-> _run_query(snapshot, self, parameters)]

\* DocumentWrapper.query: the parameters the document defines under the
\* identifier; a KeyError ends in exit("Unknown query ...").
query(queries, snapshot, self, defined, identifier) ==
  IF identifier \notin DOMAIN defined
  THEN Exit(queries)
  ELSE RecordQuery(queries, snapshot, self, defined[identifier])

\* The "queries" a document of the model may define in its frontmatter.
DocumentQueries ==
  ("kids" :> Params("children", <<"p">>, <<>>, "ascending"))
    @@ ("bad" :> Params("cousins", <<"p">>, <<>>, ""))

Identifiers == {"kids", "bad", "none"}

\* page.query(identifier) in a template, by a document whose tracker holds
\* nothing yet or the siblings it has looked up.
Query ==
  \E url \in DOMAIN store, defined \in {<<>>, DocumentQueries},
     identifier \in Identifiers, looked \in BOOLEAN :
    \E before \in {IF looked
                    THEN _record_query(<<>>, store, store[url],
                                       siblings(store[url]))
                    ELSE <<>>} :
      /\ asked' = <<[kind |-> "query", self |-> store[url],
                     defined |-> defined, identifier |-> identifier,
                     before |-> before]>>
      /\ answer' = query(before, store, store[url], defined, identifier)
      /\ UNCHANGED <<trackerVars, siteVars, table, lastAdd, siteCache, watchVars, schemaVars>>

NextQuery == PutDoc \/ DropDoc \/ Ask \/ Query

SpecQuery == Init /\ [][NextQuery]_vars

\* The last step was a query for posts.
AskedPosts == asked # <<>> /\ asked[1].kind = "posts"

UndatedLast(docs) ==
  \A i, j \in DOMAIN docs :
    i < j => ~(docs[i].date = NoDate /\ docs[j].date # NoDate)

\* C21: in both directions every document without a date comes after all
\* documents with a date, in the result of DocumentStore.getall and in the
\* result of Site.posts, for every combination of filters.
C21_UndatedLast ==
  AskedPosts => UndatedLast(answer.getall) /\ UndatedLast(answer.posts)

\* The query that gives a parent and no other filter.
OnlyParent(x) == Filter(x, NoTypes, NoTypes)

\* docs holds exactly the documents of the store whose parent is x.
ChildrenOf(docs, x) ==
  /\ Range(docs) = {d \in {store[u] : u \in DOMAIN store} : d.parent = x}
  /\ Len(docs) = Cardinality(Range(docs))

\* docs is ordered by date descending, by title ascending among equal
\* dates, with the undated documents last.
DateDescending(docs) ==
  \A i, j \in DOMAIN docs :
    i < j =>
      \/ docs[i].date # NoDate /\ docs[j].date = NoDate
      \/ docs[i].date # NoDate /\ docs[i].date > docs[j].date
      \/ /\ docs[i].date = docs[j].date
         /\ TitleRank(docs[i].title) <= TitleRank(docs[j].title)

\* C22 as stated: every query given only parent=X, to the store or to the
\* site, returns the documents whose parent is X by date descending.
C22_Original ==
  AskedPosts /\ asked[1].dir = "default"
             /\ asked[1].filter = OnlyParent(<<"p">>) =>
    /\ ChildrenOf(answer.getall, <<"p">>) /\ DateDescending(answer.getall)
    /\ ChildrenOf(answer.posts, <<"p">>) /\ DateDescending(answer.posts)

\* C22: Site.posts given only parent=X returns exactly the documents whose
\* parent is X (no grandchildren, not X itself), by date descending, by
\* title ascending among equal dates and undated last; DocumentStore.getall
\* returns the same documents, and that order when it is asked for the
\* descending direction.
C22_OnlyParent ==
  AskedPosts /\ asked[1].filter = OnlyParent(<<"p">>) =>
    /\ ChildrenOf(answer.getall, <<"p">>)
    /\ ChildrenOf(answer.posts, <<"p">>)
    /\ asked[1].dir = "default" => DateDescending(answer.posts)
    /\ asked[1].dir = "desc" =>
         DateDescending(answer.getall) /\ DateDescending(answer.posts)

\* The store holds X, two documents of X with the same date, one without a
\* date and a document a level below, and the site was asked for parent=X.
C22_Witness ==
  /\ AskedPosts
  /\ asked[1].filter = OnlyParent(<<"p">>)
  /\ asked[1].dir = "default"
  /\ DOMAIN store = {<<"p">>, <<"p", "a">>, <<"p", "b">>, <<"p", "a", "b">>}
  /\ Len(answer.posts) = 2
  /\ answer.posts[1].date = answer.posts[2].date
  /\ answer.posts[1].title = "a"

\* C23: within a build every read through the snapshot of the site comes
\* after every write to the FactStore: the snapshot is the FactStore as the
\* build leaves it, it holds no document a cleanup of this build deleted
\* for good, and it holds the document of every source file with the mtime
\* of that file.
C23_SnapshotReflectsWrites ==
  (pc = "done" /\ siteCache # <<>>) =>
    /\ siteCache[1] = store
    /\ \A i \in DOMAIN cleaned :
         \A k \in DOMAIN cleaned[i].info.urls :
           cleaned[i].info.urls[k] \notin SourceUrls =>
             post(siteCache[1], cleaned[i].info.urls[k]) = <<>>
    /\ \A f \in DOMAIN builtSources :
         /\ post(siteCache[1], UrlOf(f)) # <<>>
         /\ post(siteCache[1], UrlOf(f))[1].mtime = builtSources[f].mtime

\* A build deleted the document of a vanished file, stored a document with
\* a new mtime over the one of the build before, and rendered pages from
\* the snapshot.
C23_Witness ==
  /\ pc = "done"
  /\ siteCache # <<>>
  /\ rendered # <<>>
  /\ \E i \in DOMAIN cleaned :
       \E k \in DOMAIN cleaned[i].info.urls :
         /\ cleaned[i].info.urls[k] \notin SourceUrls
         /\ cleaned[i].info.urls[k] \in DOMAIN prevStore
  /\ \E f \in DOMAIN builtSources :
       /\ UrlOf(f) \in DOMAIN prevStore
       /\ prevStore[UrlOf(f)].mtime # builtSources[f].mtime
       /\ siteCache[1][UrlOf(f)].mtime = builtSources[f].mtime

\* The last step was page.query(identifier).
AskedQuery == asked # <<>> /\ asked[1].kind = "query"

\* The identifier names no query of the document, or one of a type that
\* _run_query does not support.
Unanswerable ==
  \/ asked[1].identifier \notin DOMAIN asked[1].defined
  \/ asked[1].defined[asked[1].identifier].type \notin Supported

\* C24: a query of an unsupported relationship type, or a named query the
\* document does not define, ends in exit(): no documents are returned and
\* the tracker holds what it held before, with no pair for the query; any
\* other query is evaluated and recorded.
C24_UnsupportedQueryExits ==
  AskedQuery =>
    IF Unanswerable
    THEN /\ answer.exit
         /\ answer.documents = <<>>
         /\ answer.queries = asked[1].before
    ELSE /\ ~answer.exit
         /\ Has(answer.queries, asked[1].defined[asked[1].identifier])

\* A document with recorded lookups asked for a query of an unsupported
\* type that it defines.
C24_Witness ==
  /\ AskedQuery
  /\ asked[1].identifier = "bad"
  /\ asked[1].defined = DocumentQueries
  /\ asked[1].before # <<>>
  /\ answer.exit

\* A stored query of page P found, in the build before, a document that
\* the FactStore of the last build no longer holds.
TargetGone(P, parameters) ==
  \E u \in Members(_run_query(prevStore, prevStore[P], parameters)) :
    u \notin DOMAIN store

\* C25: when a stored query of a page found a document that no longer
\* exists, the recomputation of the digest does not abort the build and
\* the page is rendered again.
C25_GoneTargetRerenders ==
  runs >= 2 =>
    /\ pc = "done"
    /\ \A P \in DictKeys(renderPrior) \cap DOMAIN prevStore \cap DOMAIN store :
         (\E i \in DOMAIN Get(renderPrior, P).info.queries :
            TargetGone(P, Get(renderPrior, P).info.queries[i].key))
         => P \in RenderedUrls

\* The commit of phase 1 of the last build came to its end: the last thing
\* it did was to write the cache file.
PhaseOneSaved == order # <<>> /\ order[Len(order)] = "save"

\* C26: a build looks at no page before phase 1 is over: when pages were
\* looked at, the cache of phase 1 is on disk, the site was loaded from the
\* FactStore that phase 1 left, with every document phase 1 stored, and
\* the render pass did not write to the FactStore; when the commit of
\* phase 1 failed, no site was made and no page was rendered.
C26_PhasesSequential ==
  runs >= 1 =>
    IF PhaseOneSaved
    THEN /\ cacheFile.kind = "json"
         /\ cacheFile = lastGood
         /\ cacheFile.data = tracker.cache
         /\ siteCache = <<store>>
         /\ \A i \in DOMAIN built :
              \A k \in DOMAIN built[i].info.urls :
                built[i].info.urls[k] \in DOMAIN siteCache[1]
         /\ \A i \in DOMAIN rendered : rendered[i].key \in DOMAIN siteCache[1]
    ELSE /\ pc = "failed"
         /\ siteCache = <<>>
         /\ rendered = <<>>

\* The commit of phase 1 failed after it had stored a document, and the
\* build ended without a render.
C26_Witness ==
  /\ pc = "failed"
  /\ built # <<>>
  /\ order[Len(order)] = "raise"
  /\ store # <<>>
  /\ rendered = <<>>

\* The code points of the path strings utils.find_files sorts.
Chars(path) ==
  CASE path = Path(<<>>, "a", "txt") -> <<97, 46, 116, 120, 116>>
    [] path = Path(<<>>, "b", "TXT") -> <<98, 46, 84, 88, 84>>
    [] path = Path(<<"p">>, "a", "md") -> <<112, 47, 97, 46, 109, 100>>
    [] path = Path(<<"p", "a">>, "index", "md") ->
         <<112, 47, 97, 47, 105, 110, 100, 101, 120, 46, 109, 100>>
    [] path = Path(<<"p">>, "b", "md") -> <<112, 47, 98, 46, 109, 100>>
    [] path = Path(<<"p">>, "index", "md") ->
         <<112, 47, 105, 110, 100, 101, 120, 46, 109, 100>>

\* The order of str: s comes before t.
RECURSIVE LexLess(_, _)
LexLess(s, t) ==
  IF t = <<>> THEN FALSE
  ELSE IF s = <<>> THEN TRUE
  ELSE IF s[1] # t[1] THEN s[1] < t[1]
  ELSE LexLess(Tail(s), Tail(t))

\* C27: process() adds the files in the order of their path strings and
\* commit runs the build actions in the order of the adds, so a build
\* action runs after those of all files whose path sorts earlier.
C27_SortedOrder ==
  pc \in {"done", "failed"} =>
    /\ \A i, j \in DOMAIN adds :
         i < j => LexLess(Chars(adds[i].path), Chars(adds[j].path))
    /\ \A i, j \in DOMAIN built :
         i < j => LexLess(Chars(built[i].key), Chars(built[j].key))
    /\ \A i \in DOMAIN built :
         \E k \in DOMAIN adds : adds[k].path = built[i].key /\ adds[k].enqueued

\* A pass that ran the build actions of two files, one in a directory.
C27_Witness ==
  /\ pc = "done"
  /\ Len(built) = 2
  /\ built[1].key.dir # built[2].key.dir

\* ------------------------------------------------------------------------
\* Watch mode (plugins/commands/watch.py): the Builder thread, the main
\* thread and the thread of the watchdog observer
\* ------------------------------------------------------------------------
\* The threads that call schedule(): the main thread (the initial build)
\* and the observer, which delivers the file-system callbacks.
Callers == {"main", "observer"}

\* How a build ends on the Builder thread: it returns, it raises an
\* Exception, or it raises SystemExit (exit()).
BuildEnds == {"returned", "Exception", "SystemExit"}

\* schedule() that runs the build itself instead of setting the flag.
schedule_Builds(w) ==
  [w EXCEPT !.building = @ + 1, !.started = @ + 1]

\* The body of schedule() under the lock.
schedule(w) == [w EXCEPT !.scheduled = TRUE]

\* The body of stop() under the lock.
stop(w) == [w EXCEPT !.stopped = TRUE]

\* "with self.lock:" entered by thread t.
Acquire(t, to) ==
  /\ watcher.lock = "none"
  /\ watcher' = [watcher EXCEPT !.lock = t]
  /\ threads' = [threads EXCEPT ![t] = to]

\* schedule() called: by a callback of the observer, or by the main thread.
CallSchedule ==
  /\ \E t \in Callers :
       /\ threads[t] = "idle"
       /\ watcher.calls < MaxCalls
       /\ watcher.lock = "none"
       /\ watcher' = [watcher EXCEPT !.lock = t, !.calls = @ + 1]
       /\ threads' = [threads EXCEPT ![t] = "schedule"]
  /\ UNCHANGED <<trackerVars, siteVars, table, lastAdd, queryVars, siteCache,
                 schemaVars>>

Scheduled ==
  /\ \E t \in Callers :
       /\ threads[t] = "schedule"
       /\ watcher' = [schedule(watcher) EXCEPT !.lock = "none"]
       /\ threads' = [threads EXCEPT ![t] = "idle"]
  /\ UNCHANGED <<trackerVars, siteVars, table, lastAdd, queryVars, siteCache,
                 schemaVars>>

\* KeyboardInterrupt: the main thread calls stop() and no longer schedules.
CallStop ==
  /\ threads["main"] = "idle"
  /\ Acquire("main", "stop")
  /\ UNCHANGED <<trackerVars, siteVars, table, lastAdd, queryVars, siteCache,
                 schemaVars>>

Stopped ==
  /\ threads["main"] = "stop"
  /\ watcher' = [stop(watcher) EXCEPT !.lock = "none"]
  /\ threads' = [threads EXCEPT !["main"] = "joining"]
  /\ UNCHANGED <<trackerVars, siteVars, table, lastAdd, queryVars, siteCache,
                 schemaVars>>

\* Builder.run: after the sleep the thread takes the lock.
Wake ==
  /\ threads["builder"] = "sleep"
  /\ Acquire("builder", "check")
  /\ UNCHANGED <<trackerVars, siteVars, table, lastAdd, queryVars, siteCache,
                 schemaVars>>

\* Builder.run under the lock: return when stopped, else take the flag and
\* clear it.
Check ==
  /\ threads["builder"] = "check"
  /\ IF watcher.stopped
     THEN /\ watcher' = [watcher EXCEPT !.lock = "none"]
          /\ threads' = [threads EXCEPT !["builder"] = "returned"]
     ELSE /\ watcher' = [watcher EXCEPT !.lock = "none", !.scheduled = FALSE]
          /\ threads' = [threads EXCEPT !["builder"] =
                           IF watcher.scheduled THEN "build" ELSE "sleep"]
  /\ UNCHANGED <<trackerVars, siteVars, table, lastAdd, queryVars, siteCache,
                 schemaVars>>

\* Builder.run: the build command starts.
StartBuild ==
  /\ threads["builder"] = "build"
  /\ watcher' = [watcher EXCEPT !.building = @ + 1, !.started = @ + 1]
  /\ threads' = [threads EXCEPT !["builder"] = "building"]
  /\ UNCHANGED <<trackerVars, siteVars, table, lastAdd, queryVars, siteCache,
                 schemaVars>>

\* Builder.run: the build command ends; "except Exception" catches an
\* Exception, SystemExit ends run() and with it the thread.
EndBuild ==
  /\ threads["builder"] = "building"
  /\ \E end \in BuildEnds :
       threads' = [threads EXCEPT !["builder"] =
                     IF end = "SystemExit" THEN "dead" ELSE "sleep"]
  /\ watcher' = [watcher EXCEPT !.building = @ - 1]
  /\ UNCHANGED <<trackerVars, siteVars, table, lastAdd, queryVars, siteCache,
                 schemaVars>>

NextWatch ==
  \/ CallSchedule \/ Scheduled \/ CallStop \/ Stopped
  \/ Wake \/ Check \/ StartBuild \/ EndBuild

SpecWatch == Init /\ [][NextWatch]_vars

\* C28: at most one build is in progress at any time, and it runs on the
\* Builder thread; the flags of the Builder change only while a thread
\* holds the lock, and a call of schedule() starts no build.
C28_OneBuildAtATime ==
  [][/\ watcher'.building <= 1
     /\ watcher'.building = 1 => threads'["builder"] = "building"
     /\ (watcher'.scheduled # watcher.scheduled
           \/ watcher'.stopped # watcher.stopped) => watcher.lock # "none"
     /\ (\E t \in Callers : threads[t] = "schedule" /\ threads'[t] = "idle")
           => /\ watcher'.started = watcher.started
              /\ watcher'.building = watcher.building
              /\ watcher'.scheduled]_vars

\* A callback called schedule() while a build was in progress and a flag
\* of an earlier call was still set.
C28_Witness ==
  /\ watcher.building = 1
  /\ threads["observer"] = "schedule"
  /\ watcher.started = 1
  /\ watcher.calls = 2

\* ------------------------------------------------------------------------
\* Schema transforms (schema.py)
\* ------------------------------------------------------------------------
\* The keys of the dictionaries given to a transform, and the dictionaries:
\* every subset of the keys, each key with a value of its own.
DataKeys == {"foo", "bar"}

DataValue(key) == IF key = "foo" THEN "cheese" ELSE "wine"

Datas == {[key \in keys |-> DataValue(key)] : keys \in SUBSET DataKeys}

\* A transform object: its class, its constructor argument (the key of Key,
\* the value of Default) and, for First, its transforms.
Transform(op, arg, transforms) ==
  [op |-> op, arg |-> arg, transforms |-> transforms]

Leaves ==
  {Transform("Key", key, <<>>) : key \in DataKeys}
    \cup {Transform("Default", "default", <<>>), Transform("Empty", "", <<>>)}

SeqsUpTo(S, n) == UNION {[1..len -> S] : len \in 0..n}

\* First(...) of at most MaxAlts leaves, and First(First(...), leaf).
Firsts == {Transform("First", "", alts) : alts \in SeqsUpTo(Leaves, MaxAlts)}

NestedFirsts ==
  {Transform("First", "", <<inner, leaf>>) :
     inner \in {f \in Firsts : Len(f.transforms) = 2}, leaf \in Leaves}

Transforms == Leaves \cup Firsts \cup NestedFirsts

\* The outcome of a call: the value returned, or the exception raised.
Returned(value) == [raised |-> "none", value |-> value]

Raised(exception) == [raised |-> exception, value |-> ""]

RECURSIVE Call(_, _)

\* First.__call__ that catches Skip as well as TransformFailure.
RECURSIVE First_CatchesSkip(_, _)
First_CatchesSkip(transforms, data) ==
  IF transforms = <<>>
  THEN Raised("TransformFailure")
  ELSE LET outcome == Call(Head(transforms), data)
       IN  IF outcome.raised # "none"
           THEN First_CatchesSkip(Tail(transforms), data)
           ELSE outcome

\* First.__call__: the loop over self.transforms.
RECURSIVE First(_, _)
First(transforms, data) ==
  IF transforms = <<>>
  THEN Raised("TransformFailure")
  ELSE LET outcome == Call(Head(transforms), data)
       IN  IF outcome.raised = "TransformFailure"
           THEN First(Tail(transforms), data)
           ELSE outcome

\* transform(data): __call__ of Key, Default, Empty and First.
Call(transform, data) ==
  CASE transform.op = "Key" ->
         IF transform.arg \in DOMAIN data
         THEN Returned(data[transform.arg])
         ELSE Raised("TransformFailure")
    [] transform.op = "Default" -> Returned(transform.arg)
    [] transform.op = "Empty" -> Raised("Skip")
    [] transform.op = "First" -> First(transform.transforms, data)

\* Dictionary.__call__: the loop over self.schema.items(), a dict in the
\* order of insertion, here a sequence of items with distinct keys.
RECURSIVE Dictionary(_, _, _)
Dictionary(items, data, result) ==
  IF items = <<>>
  THEN [raised |-> "none", value |-> result]
  ELSE LET outcome == Call(Head(items).transform, data)
       IN  CASE outcome.raised = "Skip" ->
                  Dictionary(Tail(items), data, result)
             [] outcome.raised = "TransformFailure" ->
                  [raised |-> "TransformFailure", value |-> <<>>]
             [] OTHER ->
                  Dictionary(Tail(items), data,
                             (Head(items).key :> outcome.value) @@ result)

\* The schemas: dicts of at most two fields.
SchemaKeys == {"field", "other"}

Schemas ==
  {items \in SeqsUpTo([key : SchemaKeys, transform : Transforms], 2) :
     \A i, j \in 1..Len(items) : items[i].key = items[j].key => i = j}

\* First(...)(data) is called. The transforms keep no state, so a behaviour
\* holds one call.
CallFirst ==
  /\ applied = <<>>
  /\ \E transform \in Firsts \cup NestedFirsts, data \in Datas :
       /\ applied' = <<[op |-> "First", transform |-> transform,
                        schema |-> <<>>, data |-> data]>>
       /\ returned' = Call(transform, data)
  /\ UNCHANGED <<trackerVars, siteVars, table, lastAdd, queryVars, siteCache,
                 watchVars>>

\* Dictionary(schema)(data) is called.
CallDictionary ==
  /\ applied = <<>>
  /\ \E schema \in Schemas, data \in Datas :
       /\ applied' = <<[op |-> "Dictionary",
                        transform |-> Transform("Empty", "", <<>>),
                        schema |-> schema, data |-> data]>>
       /\ returned' = Dictionary(schema, data, <<>>)
  /\ UNCHANGED <<trackerVars, siteVars, table, lastAdd, queryVars, siteCache,
                 watchVars>>

NextSchema == CallFirst \/ CallDictionary

SpecSchema == Init /\ [][NextSchema]_vars

AppliedFirst == applied # <<>> /\ applied[1].op = "First"

AppliedDictionary == applied # <<>> /\ applied[1].op = "Dictionary"

\* The alternatives of a First that do not raise TransformFailure.
NotFailing(transforms, data) ==
  {i \in 1..Len(transforms) :
     Call(transforms[i], data).raised # "TransformFailure"}

Earliest(S) == CHOOSE i \in S : \A j \in S : i <= j

\* A First whose alternatives before the last all fail and whose last is
\* Empty.
EndsInEmpty(transform, data) ==
  /\ transform.op = "First"
  /\ transform.transforms # <<>>
  /\ transform.transforms[Len(transform.transforms)].op = "Empty"
  /\ NotFailing(transform.transforms, data) = {Len(transform.transforms)}

\* C29: First returns the outcome of the earliest alternative that does not
\* raise TransformFailure (a Skip of that alternative is not caught) and
\* raises TransformFailure when all fail; Dictionary raises TransformFailure
\* when a field's transform raises it, and otherwise returns a dict that
\* lacks a key exactly when the key's transform raised Skip, Empty as the
\* last alternative of a First included.
C29_SkipOmitsFailurePropagates ==
  /\ AppliedFirst =>
       LET transforms == applied[1].transform.transforms
           data == applied[1].data
           ok == NotFailing(transforms, data)
       IN  IF ok = {}
           THEN returned.raised = "TransformFailure"
           ELSE /\ returned = Call(transforms[Earliest(ok)], data)
                /\ transforms[Earliest(ok)].op = "Empty"
                     => returned.raised = "Skip"
  /\ AppliedDictionary =>
       LET schema == applied[1].schema
           data == applied[1].data
           outcome(i) == Call(schema[i].transform, data)
       IN  IF \E i \in 1..Len(schema) : outcome(i).raised = "TransformFailure"
           THEN returned.raised = "TransformFailure"
           ELSE /\ returned.raised = "none"
                /\ \A i \in 1..Len(schema) :
                     /\ schema[i].key \notin DOMAIN returned.value
                          <=> outcome(i).raised = "Skip"
                     /\ schema[i].key \in DOMAIN returned.value
                          => returned.value[schema[i].key] = outcome(i).value
                     /\ EndsInEmpty(schema[i].transform, data)
                          => schema[i].key \notin DOMAIN returned.value
                /\ DOMAIN returned.value
                     \subseteq {schema[i].key : i \in 1..Len(schema)}

\* A Dictionary was called whose first field is First(Key, Empty) with the
\* key missing from the data and whose second field has a value: the result
\* holds the second field only.
C29_Witness ==
  /\ AppliedDictionary
  /\ Len(applied[1].schema) = 2
  /\ EndsInEmpty(applied[1].schema[1].transform, applied[1].data)
  /\ Len(applied[1].schema[1].transform.transforms) = 2
  /\ returned.raised = "none"
  /\ DOMAIN returned.value = {applied[1].schema[2].key}

\* ------------------------------------------------------------------------
\* Rebuild of a changed key
\* ------------------------------------------------------------------------
\* The adds of this pass whose key has a cache entry with another
\* fingerprint.
ChangedAdds ==
  {i \in DOMAIN adds :
     /\ Has(prior, adds[i].path)
     /\ Get(prior, adds[i].path).mtime # adds[i].mtime}

\* The files and the urls the entries of the other keys of a cache name.
FilesOfOthers(cache, k) ==
  UNION {Range(cache[i].info.files) : i \in {j \in DOMAIN cache : cache[j].key # k}}

UrlsOfOthers(cache, k) ==
  UNION {Range(cache[i].info.urls) : i \in {j \in DOMAIN cache : cache[j].key # k}}

\* Key k was cleaned with the info of the loaded cache, and in the order of
\* the commit the cleanups come first.
CleanedBeforeBuilt(k) ==
  /\ \E c \in DOMAIN cleaned :
       cleaned[c].key = k /\ cleaned[c].info = Get(prior, k).info
  /\ \A j \in DOMAIN order : j <= Len(cleaned) <=> order[j] = "cleanup"

\* After the rebuild of k nothing is left of what only its old info names,
\* and what its new info names is there.
RebuiltClean(k) ==
  LET old == Get(prior, k).info
      new == LastBuilt(k).info
  IN  /\ \A f \in Range(old.files) \ Range(new.files) :
           f \in outputs => f \in FilesOfOthers(tracker.cache, k)
      /\ \A u \in Range(old.urls) \ Range(new.urls) :
           u \in DOMAIN store => u \in UrlsOfOthers(tracker.cache, k)
      /\ Range(new.files) \subseteq outputs
      /\ Range(new.urls) \subseteq DOMAIN store

\* C30: a key added with a fingerprint that differs from the cached one is
\* cleaned with its old info before its build action runs; after the commit
\* the outputs only the old info names are gone and those of the new build
\* are in place.
C30_ChangedKeyCleanedFirst ==
  Committed =>
    \A i \in ChangedAdds :
      /\ CleanedBeforeBuilt(adds[i].path)
      /\ (pc = "done" /\ adds[i].path \in BuiltKeys)
           => RebuiltClean(adds[i].path)

\* ------------------------------------------------------------------------
\* Phase 1 of a site with two sources of one url (build.py, converters.py)
\* ------------------------------------------------------------------------
\* p/a.md and p/a/index.md both give the url /p/a/; p/b.md gives /p/b/.
ImportPaths == {SortedPaths[3], SortedPaths[4], SortedPaths[5]}

\* The content directories phase 1 has imported before the first step.
ImportTrees ==
  UNION {[fs -> {File(1, "plain", NoDate)}] : fs \in SUBSET ImportPaths}

\* The site after a first build of a content directory: the cache file and
\* the FactStore are what process() made of it.
InitImport ==
  \E tree \in ImportTrees :
  \E p \in {process(NoFile, SiteTasks, tree, Env(<<>>, {}, tree),
                     Quiet(Cardinality(DOMAIN tree)))} :
    /\ cacheFile = p.r.file
    /\ tracker = [p.t EXCEPT !.cache = p.r.cache]
    /\ pc = "done"
    /\ store = p.r.env.store
    /\ outputs = p.r.env.outputs
    /\ prior = <<>>
    /\ adds = p.adds
    /\ cleaned = p.r.cleaned
    /\ built = p.r.built
    /\ order = p.r.order
    /\ lastGood = p.r.file
    /\ runs = 0
    /\ sources = tree
    /\ tasks = SiteTasks
    /\ edits = 0
    /\ usedTasks = SiteTasks
    /\ templates = InitialTemplates
    /\ renderFile = NoFile
    /\ renderPrior = <<>>
    /\ rendered = <<>>
    /\ prevStore = <<>>
    /\ builtSources = tree
    /\ builtTemplates = InitialTemplates
    /\ prevTemplates = InitialTemplates
    /\ unchanged = FALSE
    /\ table = {}
    /\ lastAdd = <<>>
    /\ asked = <<>>
    /\ answer = <<>>
    /\ siteCache = <<>>
    /\ watcher = [scheduled |-> FALSE, stopped |-> FALSE, lock |-> "none",
                  building |-> 0, calls |-> 0, started |-> 0]
    /\ threads = [t \in {"main", "observer", "builder"} |->
                    IF t = "builder" THEN "sleep" ELSE "idle"]
    /\ applied = <<>>
    /\ returned = <<>>

WritePage ==
  /\ pc \in {"done", "failed"}
  /\ edits < MaxEdits
  /\ \E f \in ImportPaths, m \in Mtimes :
       /\ f \in DOMAIN sources => sources[f].mtime # m
       /\ sources' = [g \in DOMAIN sources \cup {f} |->
                        IF g = f THEN File(m, "plain", NoDate) ELSE sources[g]]
  /\ edits' = edits + 1
  /\ UNCHANGED <<dbVars, trackerVars, tasks, usedTasks, renderVars>>

RemovePage ==
  /\ pc \in {"done", "failed"}
  /\ edits < MaxEdits
  /\ \E f \in DOMAIN sources :
       sources' = [g \in DOMAIN sources \ {f} |-> sources[g]]
  /\ edits' = edits + 1
  /\ UNCHANGED <<dbVars, trackerVars, tasks, usedTasks, renderVars>>

\* Phase.process() of phase 1; the handler of the k-th action raises when
\* k is not 0.
Import ==
  /\ pc \in {"done", "failed"}
  /\ runs < MaxRuns
  /\ \E k \in 0..Cardinality(DOMAIN sources) :
     \E p \in {process(cacheFile, SiteTasks, sources,
                        Env(store, outputs, sources),
                        FailAt(Cardinality(DOMAIN sources), k))} :
         /\ tracker' = [p.t EXCEPT !.cache = p.r.cache]
         /\ prior' = ChangeTracker(cacheFile).cache
         /\ adds' = p.adds
         /\ cacheFile' = p.r.file
         /\ store' = p.r.env.store
         /\ outputs' = p.r.env.outputs
         /\ cleaned' = p.r.cleaned
         /\ built' = p.r.built
         /\ order' = p.r.order
         /\ pc' = IF p.r.ok THEN "done" ELSE "failed"
         /\ lastGood' = IF p.r.ok THEN p.r.file ELSE lastGood
  /\ builtSources' = sources
  /\ runs' = runs + 1
  /\ UNCHANGED <<dbVars, sources, tasks, edits, usedTasks, templates, renderFile,
                 renderPrior, rendered, prevStore, builtTemplates,
                 prevTemplates, unchanged>>

NextImport == WritePage \/ RemovePage \/ Import

SpecImport == InitImport /\ [][NextImport]_vars

\* C31: after a successful process() every url the info of a cache entry
\* lists is in the FactStore and every file it lists exists, also when two
\* sources give the same url.
C31_TrackedOutputsPresent ==
  pc = "done" =>
    \A i \in DOMAIN tracker.cache :
      /\ Range(tracker.cache[i].info.urls) \subseteq DOMAIN store
      /\ Range(tracker.cache[i].info.files) \subseteq outputs

\* The urls and files the cleanups of the last commit were called with.
CleanedUrls == UNION {Range(cleaned[i].info.urls) : i \in DOMAIN cleaned}

CleanedFiles == UNION {Range(cleaned[i].info.files) : i \in DOMAIN cleaned}

\* A successful build that follows a failed commit over the same sources.
Retry ==
  /\ pc = "failed"
  /\ pc' = "done"
  /\ runs' = runs + 1
  /\ sources = builtSources

\* C32: the successful build after a failed commit over the same sources
\* leaves every source with a cache entry of its current fingerprint and
\* with its outputs present, and skips no key whose outputs the cleanups of
\* the failed commit deleted.
C32_RetryRestoresOutputs ==
  [][Retry =>
       /\ \A f \in DOMAIN sources' :
            /\ Has(tracker'.cache, f)
            /\ Get(tracker'.cache, f).mtime = sources'[f].mtime
            /\ Range(Get(tracker'.cache, f).info.urls) \subseteq DOMAIN store'
            /\ Range(Get(tracker'.cache, f).info.files) \subseteq outputs'
       /\ \A i \in DOMAIN adds' :
            (/\ Has(prior', adds'[i].path)
             /\ \/ Range(Get(prior', adds'[i].path).info.urls)
                     \cap CleanedUrls # {}
                \/ Range(Get(prior', adds'[i].path).info.files)
                     \cap CleanedFiles # {})
              => adds'[i].enqueued]_vars

\* C33: for a path of the loaded cache, add enqueues a build action exactly
\* when the fingerprint it is given differs from the cached one, whether
\* newer or older, and a successful commit has run the actions enqueued.
C33_StaleIffFingerprintDiffers ==
  \A i \in DOMAIN adds :
    Has(prior, adds[i].path) =>
      /\ adds[i].enqueued <=> Get(prior, adds[i].path).mtime # adds[i].mtime
      /\ (pc = "done" /\ adds[i].enqueued) => adds[i].path \in BuiltKeys

\* ------------------------------------------------------------------------
\* DocumentStore.getall with all its arguments (service/store.py)
\* ------------------------------------------------------------------------
\* None for offset and count.
NoInt == 0 - 1

\* The contents column of the documents of the model, by title, as lists of
\* characters: "ab" for a, "B" for b, the empty string for the others.
ContentsOf(d) ==
  CASE d.title = "a" -> <<"a", "b">>
    [] d.title = "b" -> <<"B">>
    [] OTHER -> <<>>

\* LIKE compares ASCII letters without regard to case.
Fold(c) == IF c = "B" THEN "b" ELSE IF c = "A" THEN "a" ELSE c

\* contents LIKE '%word%'
Like(contents, word) ==
  \E i \in 0..(Len(contents) - Len(word)) :
    \A k \in 1..Len(word) : Fold(contents[i + k]) = Fold(word[k])

\* The values of search: None, and strings already split into words by
\* search.split(): "", "b", "a b", "ba".
NoSearch == [given |-> FALSE, words |-> <<>>]

Search(words) == [given |-> TRUE, words |-> words]

Searches ==
  {NoSearch, Search(<<>>), Search(<< <<"b">> >>),
   Search(<< <<"a">>, <<"b">> >>), Search(<< <<"b", "a">> >>)}

\* **kwargs: no keyword, or title=<value>.
NoKeywords == <<>>

Keywords == {NoKeywords, <<[key |-> "title", value |-> "a"]>>}

\* The arguments of a call of getall.
Args(filter, search, kwargs, offset, count, asc) ==
  [filter |-> filter, search |-> search, kwargs |-> kwargs,
   offset |-> offset, count |-> count, asc |-> asc]

\* The WHERE clause: the conditions of Selected, one LIKE for each word of
\* search and one json_extract(metadata, '$.key') = value for each keyword.
Where(d, a) ==
  /\ Selected(d, a.filter)
  /\ \A i \in DOMAIN a.search.words : Like(ContentsOf(d), a.search.words[i])
  /\ \A i \in DOMAIN a.kwargs : d[a.kwargs[i].key] = a.kwargs[i].value

\* The LIMIT clause: "LIMIT ?, ?" when offset and count are both given,
\* "LIMIT ?" when only count is, else none.
Limit(rows, offset, count) ==
  IF offset # NoInt /\ count # NoInt
  THEN SubSeq(rows, offset + 1,
              IF offset + count < Len(rows) THEN offset + count ELSE Len(rows))
  ELSE IF count # NoInt
       THEN SubSeq(rows, 1, IF count < Len(rows) THEN count ELSE Len(rows))
       ELSE rows

\* DocumentStore.getall(parent, include, exclude, offset, count, search,
\* asc, **kwargs).
getall_args(st, a) ==
  Limit(OrderBy({d \in {st[u] : u \in DOMAIN st} : Where(d, a)}, a.asc),
        a.offset, a.count)

ArgsSet ==
  {Args(q, s, k, o, c, asc) :
     q \in Filters, s \in Searches, k \in Keywords,
     o \in {NoInt, 0, 1}, c \in {NoInt, 1, 2}, asc \in BOOLEAN}

\* One call of getall on the store as it is; the store changes before the
\* next call.
Getall ==
  /\ asked = <<>>
  /\ \E a \in ArgsSet :
       /\ asked' = <<[kind |-> "getall", args |-> a]>>
       /\ answer' = [getall |-> getall_args(store, a)]
  /\ UNCHANGED <<trackerVars, siteVars, table, lastAdd, siteCache, watchVars,
                 schemaVars>>

NextSearch == PutDoc \/ DropDoc \/ Getall

SpecSearch == Init /\ [][NextSearch]_vars

AskedGetall == asked # <<>> /\ asked[1].kind = "getall"

\* The reference: the documents that pass every filter given, in order,
\* without the first offset of them and at most count of what is left.
Reference(st, a) ==
  LET kept == {d \in {st[u] : u \in DOMAIN st} :
                 /\ a.filter.include.given => d.type \in a.filter.include.types
                 /\ a.filter.exclude.given => d.type \notin a.filter.exclude.types
                 /\ a.filter.parent # AllPosts => d.parent = a.filter.parent
                 /\ \A i \in DOMAIN a.search.words :
                      Like(ContentsOf(d), a.search.words[i])
                 /\ \A i \in DOMAIN a.kwargs :
                      d[a.kwargs[i].key] = a.kwargs[i].value}
      rows == OrderBy(kept, a.asc)
      skip == IF a.offset = NoInt THEN 0 ELSE a.offset
      rest == SubSeq(rows, skip + 1, Len(rows))
  IN  IF a.count = NoInt \/ a.count >= Len(rest) THEN rest
      ELSE SubSeq(rest, 1, a.count)

\* C34: getall returns what the reference returns, for every combination
\* of arguments given and not given.
C34_GetallIsReference ==
  AskedGetall => answer.getall = Reference(store, asked[1].args)

\* C35: for no filter or a parent only, asked with the same direction,
\* Site.posts returns the documents DocumentStore.getall returns, in the
\* same order.
C35_SnapshotEqualsStore ==
  (/\ AskedPosts
   /\ asked[1].dir # "default"
   /\ ~asked[1].filter.include.given
   /\ ~asked[1].filter.exclude.given)
    => answer.posts = answer.getall

\* The files the last process() found unchanged: tracked by the loaded
\* cache with the mtime they have, and matched by some rule.
UnchangedTracked ==
  {f \in DOMAIN builtSources :
     /\ Has(prior, f)
     /\ Get(prior, f).mtime = builtSources[f].mtime
     /\ MatchingRules(f) # {}}

\* C36: a tracked file whose mtime is that of its cache entry is skipped
\* whatever rule or handler matches it now: it is not rebuilt, not cleaned,
\* and its cache entry stays as it was.
C36_HandlerChangeIgnored ==
  pc = "done" =>
    \A f \in UnchangedTracked :
      /\ f \notin BuiltKeys
      /\ f \notin CleanedKeys
      /\ \A i \in DOMAIN adds : adds[i].path = f => ~adds[i].enqueued
      /\ Has(tracker.cache, f) /\ Get(tracker.cache, f) = Get(prior, f)

\* A file that copy_file built is matched by a rule with the handler ignore
\* in the next process(), and its entry still names the copy.
C36_Witness ==
  /\ pc = "done"
  /\ \E f \in UnchangedTracked :
       /\ usedTasks[FirstRule(f)].then = "ignore"
       /\ Get(prior, f).info.files = <<f>>
       /\ f \in outputs

\* ------------------------------------------------------------------------
\* Watch mode: progress of the Builder thread
\* ------------------------------------------------------------------------
\* The threads are scheduled fairly: a thread that holds the lock leaves it,
\* the Builder wakes from its sleep, and a build comes to an end.
SpecWatchLive ==
  /\ SpecWatch
  /\ WF_vars(Scheduled) /\ WF_vars(Stopped)
  /\ WF_vars(Wake) /\ WF_vars(Check)
  /\ WF_vars(StartBuild) /\ WF_vars(EndBuild)

\* C37: a call of schedule() has set the flag after n builds were started;
\* eventually another build starts.
C37_ScheduledBuildStarts ==
  \A n \in 0..MaxCalls :
    (watcher.scheduled /\ ~watcher.stopped /\ watcher.started = n)
      ~> (watcher.started > n)

\* C38: the Builder thread goes back to its sleep when a build ends,
\* however the build ended.
C38_FailedBuildKeepsPolling ==
  [][(threads["builder"] = "building" /\ threads'["builder"] # "building")
       => threads'["builder"] = "sleep"]_vars

====
